---- MODULE Spec2Model ----
(***************************************************************************)
(* A model of savu/plugins/plugin_tools.py: the parameter definitions of a  *)
(* plugin (PluginParameters), their validation, the resolution of default  *)
(* values, the display flags of dependent parameters and the parameter     *)
(* tuning ("multi parameter") overrides of a process list.                 *)
(*                                                                         *)
(* Python values are records [ty, segs] (scalars: ty is the Python type    *)
(* name, segs the text of str(value) cut at every ';'), [ty, items]        *)
(* (lists) and [ty, od] (dictionaries).  An ordered dictionary is a        *)
(* sequence of entries [k, v] with distinct keys; a parameter record (one  *)
(* yaml mapping of define_parameters) is a TLA+ function whose DOMAIN is   *)
(* the set of keys the record carries.                                     *)
(***************************************************************************)
EXTENDS Integers, Sequences, FiniteSets, TLC

VARIABLES
    pc,                 \* position inside PluginTools.__init__ / afterwards
    tools_list,         \* PluginTools.tools_list: the yaml blocks, base first
    next_tool,          \* index of the next tools class populate_parameters maps
    param,              \* self.param (MetaData, ordered): name -> definition
    parameters,         \* self.parameters: name -> current value
    plugin_has_parameters,    \* plugin.set_parameters has been called
    multi_params_dict,  \* self.multi_params_dict, "unset" before initialise
    extra_dims,         \* self.extra_dims, "unset" before initialise
    plugin_multi_params_dict, \* the plugin's sweep entries: index -> entry
    plugin_extra_dims,  \* the plugin's extra dimensions
    error,              \* the exception the last operation raised, or NoError
    missing_key_dict,   \* what _check_required_keys printed before raising
    dtype_report,       \* the invalid types _check_dtype printed
    last,               \* the last operation and its arguments
    initialised,        \* number of calls of initialise so far
    loop_index,         \* update_dependent_defaults: the definition its loop is at
    stack,              \* the calls of get_dependent_default in progress
    visibility_report,  \* the invalid visibility levels _check_visibility printed
    tools_cite,         \* per tools class: its methods and their docstrings
    tools_doc,          \* per tools class: its docstring and that of config_warn
    cite,               \* self.cite (MetaData, ordered): name -> citation
    doc,                \* self.doc (MetaData): the documentation record
    docstring_info,     \* self.docstring_info
    returned            \* what the last operation returned, if it returns a value

vars == <<pc, tools_list, next_tool, param, parameters, plugin_has_parameters,
          multi_params_dict, extra_dims, plugin_multi_params_dict,
          plugin_extra_dims, error, missing_key_dict, dtype_report, last,
          initialised, loop_index, stack, visibility_report, tools_cite,
          tools_doc, cite, doc, docstring_info, returned>>

-----------------------------------------------------------------------------
(* Bounds of the model *)

\* calls of initialise on one PluginTools object
MaxInitialise == 1
\* keys of one process-list override mapping
MaxOverrides == 2

-----------------------------------------------------------------------------
(* Python values *)

RECURSIVE Join(_, _)
\* sep.join(segs)
Join(segs, sep) ==
    IF Len(segs) = 0 THEN ""
    ELSE IF Len(segs) = 1 THEN segs[1]
    ELSE segs[1] \o sep \o Join(Tail(segs), sep)

PyStr(text) == [ty |-> "str", segs |-> <<text>>]
PyInt(text) == [ty |-> "int", segs |-> <<text>>]
PyNone == [ty |-> "NoneType", segs |-> <<"None">>]
\* the string "a;b;..." of a process list
PyMulti(segs) == [ty |-> "str", segs |-> segs]
PyList(items) == [ty |-> "list", items |-> items]
PyDict(od) == [ty |-> "dict", od |-> od]

\* repr(v) of a scalar, as str(list) prints the elements of a list
Repr(v) ==
    IF v.ty = "str" THEN "'" \o Join(v.segs, ";") \o "'"
    ELSE Join(v.segs, ";")

RECURSIVE ReprItems(_)
ReprItems(items) ==
    IF Len(items) = 0 THEN ""
    ELSE IF Len(items) = 1 THEN Repr(items[1])
    ELSE Repr(items[1]) \o ", " \o ReprItems(Tail(items))

\* str(v)
Str(v) ==
    IF v.ty = "list" THEN "[" \o ReprItems(v.items) \o "]"
    ELSE IF v.ty = "dict" THEN "<dict>"
    ELSE Join(v.segs, ";")

\* type(v).__name__
TypeName(v) == v.ty

\* isinstance(v, dict)
IsDict(v) == v.ty = "dict"

\* bool(v): the truth value Python gives v
Truthy(v) ==
    IF v.ty = "NoneType" THEN FALSE
    ELSE IF v.ty = "list" THEN Len(v.items) > 0
    ELSE IF v.ty = "dict" THEN Len(v.od) > 0
    ELSE IF v.ty = "int" THEN v.segs # <<"0">>
    ELSE Join(v.segs, ";") # ""

-----------------------------------------------------------------------------
(* Ordered dictionaries: sequences of entries [k, v] with distinct keys *)

OdKeys(od) == {od[i].k : i \in DOMAIN od}
OdHas(od, key) == \E i \in DOMAIN od : od[i].k = key
OdGet(od, key) == od[CHOOSE i \in DOMAIN od : od[i].k = key].v
\* od[key] = value: an existing key keeps its place, a new key goes last
OdSet(od, key, value) ==
    IF OdHas(od, key)
    THEN [i \in DOMAIN od |->
            IF od[i].k = key THEN [k |-> key, v |-> value] ELSE od[i]]
    ELSE Append(od, [k |-> key, v |-> value])
\* list(od.keys())
OdKeyList(od) == [i \in DOMAIN od |-> od[i].k]

-----------------------------------------------------------------------------
(* Exceptions *)

NoError == [type |-> "none", what |-> "", key |-> ""]
Raise(type, what, key) == [type |-> type, what |-> what, key |-> key]
KeyError(key) == Raise("KeyError", "", key)

-----------------------------------------------------------------------------
(* The validation of one tools class (ParameterValidator) *)

\* param_u.type_dict: the registry of accepted dtype tokens
type_dict == {"int", "float", "str", "list", "filepath"}

visibility_levels ==
    {"basic", "intermediate", "advanced", "datasets", "hidden", "not"}

datasets == {"in_datasets", "out_datasets"}

four_required_keys == {"dtype", "description", "visibility", "default"}

\* p.get("visibility") == "hidden"
IsHidden(p) == "visibility" \in DOMAIN p /\ p.visibility = "hidden"

RECURSIVE required_keys_loop(_, _, _, _)
\* the for loop of _check_required_keys from record i on; required_keys is
\* the loop's variable of that name, missing the missing_key_dict so far
required_keys_loop(param_info_dict, i, required_keys, missing) ==
    IF i > Len(param_info_dict) THEN missing
    ELSE
        LET p == param_info_dict[i].v
            required == IF IsHidden(p) THEN {"default"} ELSE required_keys
        IN  required_keys_loop(
                param_info_dict, i + 1, required,
                IF required \subseteq DOMAIN p THEN missing
                ELSE OdSet(missing, param_info_dict[i].k,
                           required \ DOMAIN p))

\* _check_required_keys: the missing_key_dict it prints and what it raises
check_required_keys(param_info_dict) ==
    LET missing ==
            required_keys_loop(param_info_dict, 1, four_required_keys, <<>>)
    IN  [missing |-> missing,
         error |-> IF Len(missing) > 0
                   THEN Raise("Exception", "MissingKeys", "")
                   ELSE NoError]

\* a slip of the test of _check_options: it looks for a declared option
\* that is not described
invalid_option_reversed(p) ==
    LET options == IF "options" \in DOMAIN p THEN p.options ELSE <<>>
        option_desc == IF "options" \in DOMAIN p.description.fields
                       THEN p.description.fields.options ELSE <<>>
    IN  /\ Len(options) > 0
        /\ Len(option_desc) > 0
        /\ \E n \in DOMAIN options :
              \A j \in DOMAIN option_desc : options[n] # option_desc[j]

\* the test of _check_options on one record whose description is a mapping
invalid_option(p) ==
    LET options == IF "options" \in DOMAIN p THEN p.options ELSE <<>>
        option_desc == IF "options" \in DOMAIN p.description.fields
                       THEN p.description.fields.options ELSE <<>>
    IN  /\ Len(options) > 0
        /\ Len(option_desc) > 0
        /\ \E j \in DOMAIN option_desc :
              \A n \in DOMAIN options : options[n] # option_desc[j]

RECURSIVE check_options_loop(_, _)
check_options_loop(param_info_dict, i) ==
    IF i > Len(param_info_dict) THEN NoError
    ELSE
        LET p == param_info_dict[i].v IN
        IF "description" \notin DOMAIN p THEN KeyError("description")
        ELSE IF p.description.isdict /\ invalid_option(p)
        THEN Raise("Exception", "InvalidOption", "")
        ELSE check_options_loop(param_info_dict, i + 1)

\* _check_options: what it raises
check_options(param_info_dict) == check_options_loop(param_info_dict, 1)

\* a slip of check_data_keys: a dataset parameter declared 'not' is coerced
\* like any other
check_data_keys_always(p_key, p) ==
    IF p_key \in datasets /\ p.visibility # "datasets"
    THEN [p EXCEPT !.visibility = "datasets"]
    ELSE p

\* _check_data_keys: the record afterwards
check_data_keys(p_key, p) ==
    IF p_key \in datasets /\ p.visibility # "datasets" /\ p.visibility # "not"
    THEN [p EXCEPT !.visibility = "datasets"]
    ELSE p

RECURSIVE visibility_loop_first(_, _, _, _)
\* a slip of the loop of _check_visibility: it fails at the first record
\* whose level is invalid
visibility_loop_first(pid, i, printed, visibility_valid) ==
    IF i > Len(pid) \/ ~visibility_valid
    THEN [pid |-> pid, printed |-> printed,
          error |-> IF visibility_valid THEN NoError
                    ELSE Raise("Exception", "InvalidVisibility", "")]
    ELSE IF "visibility" \notin DOMAIN pid[i].v
    THEN [pid |-> pid, printed |-> printed, error |-> KeyError("visibility")]
    ELSE
        LET p == check_data_keys(pid[i].k, pid[i].v)
            invalid == p.visibility \notin visibility_levels
        IN  visibility_loop_first(
                [pid EXCEPT ![i] = [k |-> pid[i].k, v |-> p]], i + 1,
                IF invalid
                THEN Append(printed, [param |-> pid[i].k,
                                      level |-> p.visibility])
                ELSE printed,
                visibility_valid /\ ~invalid)

RECURSIVE visibility_loop(_, _, _, _)
\* the loop of _check_visibility from record i on: what it has printed so
\* far, whether every level was valid, and what it raises after the loop
visibility_loop(pid, i, printed, visibility_valid) ==
    IF i > Len(pid)
    THEN [pid |-> pid, printed |-> printed,
          error |-> IF visibility_valid THEN NoError
                    ELSE Raise("Exception", "InvalidVisibility", "")]
    ELSE IF "visibility" \notin DOMAIN pid[i].v
    THEN [pid |-> pid, printed |-> printed, error |-> KeyError("visibility")]
    ELSE
        LET p == check_data_keys(pid[i].k, pid[i].v)
            invalid == p.visibility \notin visibility_levels
        IN  visibility_loop(
                [pid EXCEPT ![i] = [k |-> pid[i].k, v |-> p]], i + 1,
                IF invalid
                THEN Append(printed, [param |-> pid[i].k,
                                      level |-> p.visibility])
                ELSE printed,
                visibility_valid /\ ~invalid)

\* _check_visibility: the records afterwards, what it printed and what it
\* raises
check_visibility(param_info_dict) ==
    visibility_loop(param_info_dict, 1, <<>>, TRUE)

\* the invalid types the inner loop of _check_dtype prints for one record
invalid_items(p_key, dtype) ==
    SelectSeq([j \in DOMAIN dtype.toks |-> [param |-> p_key, item |-> dtype.toks[j]]],
              LAMBDA e : e.item \notin type_dict)

RECURSIVE check_dtype_loop(_, _, _, _)
\* the for loop of _check_dtype from record i on; printed is what was
\* printed so far, dtype_valid the loop's flag
check_dtype_loop(param_info_dict, i, printed, dtype_valid) ==
    IF i > Len(param_info_dict)
    THEN [printed |-> printed,
          error |-> IF dtype_valid THEN NoError
                    ELSE Raise("Exception", "InvalidDtype", "")]
    ELSE
        LET p_key == param_info_dict[i].k
            p == param_info_dict[i].v
        IN
        IF "dtype" \notin DOMAIN p
        THEN [printed |-> printed, error |-> KeyError("dtype")]
        ELSE IF p.dtype.islist
        THEN check_dtype_loop(param_info_dict, i + 1,
                              printed \o invalid_items(p_key, p.dtype),
                              dtype_valid)
        ELSE check_dtype_loop(param_info_dict, i + 1,
                              printed \o invalid_items(p_key, p.dtype),
                              dtype_valid /\ p.dtype.toks[1] \in type_dict)

\* _check_dtype: the invalid types it prints and what it raises
check_dtype(param_info_dict) ==
    check_dtype_loop(param_info_dict, 1, <<>>, TRUE)

\* _set_display
set_display(param_info_dict) ==
    [i \in DOMAIN param_info_dict |->
        [k |-> param_info_dict[i].k,
         v |-> [key \in DOMAIN param_info_dict[i].v \cup {"display"} |->
                  IF key = "display" THEN "on"
                  ELSE param_info_dict[i].v[key]]]]

\* the numerals ast.literal_eval turns into an int
numerals == {"0", "1", "2", "3", "42"}

\* pu._dumps: a string that spells a Python literal becomes that literal
dumps(val) ==
    IF val.ty = "str" /\ Len(val.segs) = 1 /\ val.segs[1] \in numerals
    THEN PyInt(val.segs[1])
    ELSE IF val.ty = "str" /\ val.segs = <<"None">> THEN PyNone
    ELSE val

RECURSIVE set_loop_keep_first(_, _, _)
\* a slip of set_loop: a name that is already defined keeps its first record
set_loop_keep_first(meta, param_info_dict, i) ==
    IF i > Len(param_info_dict) THEN meta
    ELSE
        LET p == param_info_dict[i].v IN
        set_loop_keep_first(
            IF OdHas(meta, param_info_dict[i].k) THEN meta
            ELSE OdSet(meta, param_info_dict[i].k,
                       [p EXCEPT !.default = dumps(p.default)]),
            param_info_dict, i + 1)

RECURSIVE set_loop(_, _, _)
\* the last loop of _set_parameter_definitions: self.param.set per record
set_loop(meta, param_info_dict, i) ==
    IF i > Len(param_info_dict) THEN meta
    ELSE
        LET p == param_info_dict[i].v IN
        set_loop(OdSet(meta, param_info_dict[i].k,
                       [p EXCEPT !.default = dumps(p.default)]),
                 param_info_dict, i + 1)

\* _set_parameter_definitions: self.param afterwards, what was printed and
\* what was raised
set_parameter_definitions(meta, param_info_dict) ==
    LET none == [param |-> meta, error |-> NoError, missing |-> <<>>,
                 printed |-> <<>>, visibility |-> <<>>]
        req == check_required_keys(param_info_dict)
        opt == check_options(param_info_dict)
        vis == check_visibility(param_info_dict)
        dty == check_dtype(vis.pid)
    IN
    IF Len(param_info_dict) = 0 THEN none
    ELSE IF req.error # NoError
    THEN [none EXCEPT !.error = req.error, !.missing = req.missing]
    ELSE IF opt # NoError THEN [none EXCEPT !.error = opt]
    ELSE IF vis.error # NoError
    THEN [none EXCEPT !.error = vis.error, !.visibility = vis.printed]
    ELSE IF dty.error # NoError
    THEN [none EXCEPT !.error = dty.error, !.printed = dty.printed]
    ELSE [none EXCEPT !.param = set_loop(meta, set_display(vis.pid), 1),
                      !.printed = dty.printed]

-----------------------------------------------------------------------------
(* Default values (DefaultResolver) *)

\* key in child, for a definition record or a Python dictionary
HasItem(child, key) ==
    IF "ty" \in DOMAIN child
    THEN child.ty = "dict" /\ OdHas(child.od, key)
    ELSE key \in DOMAIN child

\* child[key], for a definition record or a Python dictionary
Item(child, key) ==
    IF "ty" \in DOMAIN child THEN OdGet(child.od, key) ELSE child[key]

\* does_exist: what it raises
does_exist(key, ddict) ==
    IF OdHas(ddict, key) THEN NoError
    ELSE Raise("Exception", "UnknownDependency", key)

\* the argument get_dependent_default hands to its recursive call (line 326)
recursive_argument(parent) == parent.default

RECURSIVE get_dependent_default(_, _, _)
\* get_dependent_default(child) with self.param = pdefs and
\* self.parameters = params: the value returned, self.parameters afterwards
\* and what was raised
get_dependent_default(child, pdefs, params) ==
    LET fail(e) == [value |-> PyNone, parameters |-> params, error |-> e] IN
    IF ~HasItem(child, "default") THEN fail(KeyError("default"))
    ELSE
    LET default == Item(child, "default") IN
    IF ~IsDict(default)
    THEN fail(Raise("AttributeError", "keys", ""))
    ELSE IF Len(default.od) = 0
    THEN fail(Raise("IndexError", "", ""))
    ELSE
    LET parent_name == OdKeyList(default.od)[1] IN
    IF does_exist(parent_name, pdefs) # NoError
    THEN fail(does_exist(parent_name, pdefs))
    ELSE
    LET parent == OdGet(pdefs, parent_name)
        rec == IF IsDict(parent.default)
               THEN get_dependent_default(recursive_argument(parent),
                                          pdefs, params)
               ELSE [value |-> PyNone, parameters |-> params,
                     error |-> NoError]
        params2 == IF IsDict(parent.default) /\ rec.error = NoError
                   THEN OdSet(rec.parameters, parent_name, rec.value)
                   ELSE rec.parameters
        branches == OdGet(default.od, parent_name)
    IN
    IF rec.error # NoError THEN rec
    ELSE IF ~OdHas(params2, parent_name)
    THEN [value |-> PyNone, parameters |-> params2,
          error |-> KeyError(parent_name)]
    ELSE IF ~IsDict(branches)
    THEN [value |-> PyNone, parameters |-> params2,
          error |-> Raise("TypeError", "subscript", "")]
    ELSE IF ~OdHas(branches.od, OdGet(params2, parent_name))
    THEN [value |-> PyNone, parameters |-> params2,
          error |-> KeyError(Str(OdGet(params2, parent_name)))]
    ELSE [value |-> OdGet(branches.od, OdGet(params2, parent_name)),
          parameters |-> params2, error |-> NoError]

RECURSIVE update_loop(_, _, _)
\* the for loop of update_dependent_defaults from definition i on
update_loop(pdefs, params, i) ==
    IF i > Len(pdefs) THEN [parameters |-> params, error |-> NoError]
    ELSE
        LET pdict == pdefs[i].v IN
        IF Truthy(pdict.default) /\ IsDict(pdict.default)
        THEN LET r == get_dependent_default(pdict, pdefs, params) IN
             IF r.error # NoError
             THEN [parameters |-> r.parameters, error |-> r.error]
             ELSE update_loop(pdefs, OdSet(r.parameters, pdefs[i].k, r.value),
                              i + 1)
        ELSE update_loop(pdefs, params, i + 1)

\* update_dependent_defaults: self.parameters afterwards and what was raised
update_dependent_defaults(pdefs, params) == update_loop(pdefs, params, 1)

\* a slip of next_index: the loop does not move on
next_index_stay(i) == i

\* the for loop of update_dependent_defaults goes to the next definition
next_index(i) == i + 1

\* one call of get_dependent_default in progress: its argument, the parent
\* it found and the line it is at
Frame(child) == [child |-> child, parent_name |-> "", at |-> "entry"]

\* get_dependent_default(child) from its entry to line 324: it raises, calls
\* itself on argument, or goes on to select the branch
enter_dependent_default(child, pdefs) ==
    LET raise(e) == [kind |-> "raise", error |-> e, parent_name |-> "",
                     argument |-> PyNone]
    IN
    IF ~HasItem(child, "default") THEN raise(KeyError("default"))
    ELSE
    LET default == Item(child, "default") IN
    IF ~IsDict(default) THEN raise(Raise("AttributeError", "keys", ""))
    ELSE IF Len(default.od) = 0 THEN raise(Raise("IndexError", "", ""))
    ELSE
    LET parent_name == OdKeyList(default.od)[1] IN
    IF does_exist(parent_name, pdefs) # NoError
    THEN raise(does_exist(parent_name, pdefs))
    ELSE
    LET parent == OdGet(pdefs, parent_name) IN
    IF IsDict(parent.default)
    THEN [kind |-> "recurse", error |-> NoError, parent_name |-> parent_name,
          argument |-> recursive_argument(parent)]
    ELSE [kind |-> "select", error |-> NoError, parent_name |-> parent_name,
          argument |-> PyNone]

\* line 327: child['default'][parent_name][self.parameters[parent_name]]
select_dependent_default(child, parent_name, params) ==
    LET raise(e) == [value |-> PyNone, error |-> e]
        branches == OdGet(Item(child, "default").od, parent_name)
    IN
    IF ~OdHas(params, parent_name) THEN raise(KeyError(parent_name))
    ELSE IF ~IsDict(branches) THEN raise(Raise("TypeError", "subscript", ""))
    ELSE IF ~OdHas(branches.od, OdGet(params, parent_name))
    THEN raise(KeyError(Str(OdGet(params, parent_name))))
    ELSE [value |-> OdGet(branches.od, OdGet(params, parent_name)),
          error |-> NoError]

-----------------------------------------------------------------------------
(* Display flags (DependencyEngine) *)

\* isinstance(dependency, OrderedDict)
IsOrderedDict(dependency) == dependency.ty = "dict"

\* x in choices, for a list of choices
InList(x, choices) == \E j \in DOMAIN choices.items : choices.items[j] = x

\* a slip of display_after: a mapping dependency on a parameter the mapping
\* does not hold switches the display off
display_after_absent_off(pdict, params) ==
    IF "dependency" \notin DOMAIN pdict THEN pdict.display
    ELSE IF IsOrderedDict(pdict.dependency)
    THEN LET parent_param_name == OdKeyList(pdict.dependency.od)[1]
             parent_choice_list == OdGet(pdict.dependency.od, parent_param_name)
         IN  IF /\ OdHas(params, parent_param_name)
                /\ InList(PyStr(Str(OdGet(params, parent_param_name))),
                          parent_choice_list)
             THEN "on" ELSE "off"
    ELSE LET dependency == Str(pdict.dependency) IN
         IF OdHas(params, dependency)
         THEN IF \/ OdGet(params, dependency) = PyNone
                 \/ Str(OdGet(params, dependency)) = "None"
              THEN "off" ELSE "on"
         ELSE pdict.display

\* a slip of display_after: a plain dependency only tests the parent's
\* value against None itself, not its string form
display_after_none_only(pdict, params) ==
    IF "dependency" \notin DOMAIN pdict THEN pdict.display
    ELSE IF IsOrderedDict(pdict.dependency)
    THEN LET parent_param_name == OdKeyList(pdict.dependency.od)[1]
             parent_choice_list == OdGet(pdict.dependency.od, parent_param_name)
         IN  IF OdHas(params, parent_param_name)
             THEN IF InList(PyStr(Str(OdGet(params, parent_param_name))),
                            parent_choice_list)
                  THEN "on" ELSE "off"
             ELSE pdict.display
    ELSE LET dependency == Str(pdict.dependency) IN
         IF OdHas(params, dependency)
         THEN IF OdGet(params, dependency) = PyNone
              THEN "off" ELSE "on"
         ELSE pdict.display

\* a slip of display_after: a dependency on a parameter the mapping does
\* not hold flips the display
display_after_toggle(pdict, params) ==
    IF "dependency" \notin DOMAIN pdict THEN pdict.display
    ELSE IF IsOrderedDict(pdict.dependency)
    THEN LET parent_param_name == OdKeyList(pdict.dependency.od)[1]
             parent_choice_list == OdGet(pdict.dependency.od, parent_param_name)
         IN  IF OdHas(params, parent_param_name)
             THEN IF InList(PyStr(Str(OdGet(params, parent_param_name))),
                            parent_choice_list)
                  THEN "on" ELSE "off"
             ELSE IF pdict.display = "on" THEN "off" ELSE "on"
    ELSE LET dependency == Str(pdict.dependency) IN
         IF OdHas(params, dependency)
         THEN IF \/ OdGet(params, dependency) = PyNone
                 \/ Str(OdGet(params, dependency)) = "None"
              THEN "off" ELSE "on"
         ELSE IF pdict.display = "on" THEN "off" ELSE "on"

\* the display flag check_dependencies leaves one definition with
display_after(pdict, params) ==
    IF "dependency" \notin DOMAIN pdict THEN pdict.display
    ELSE IF IsOrderedDict(pdict.dependency)
    THEN LET parent_param_name == OdKeyList(pdict.dependency.od)[1]
             parent_choice_list == OdGet(pdict.dependency.od, parent_param_name)
         IN  IF OdHas(params, parent_param_name)
             THEN IF InList(PyStr(Str(OdGet(params, parent_param_name))),
                            parent_choice_list)
                  THEN "on" ELSE "off"
             ELSE pdict.display
    ELSE LET dependency == Str(pdict.dependency) IN
         IF OdHas(params, dependency)
         THEN IF \/ OdGet(params, dependency) = PyNone
                 \/ Str(OdGet(params, dependency)) = "None"
              THEN "off" ELSE "on"
         ELSE pdict.display

\* check_dependencies(parameters): self.param afterwards
check_dependencies(pdefs, params) ==
    [i \in DOMAIN pdefs |->
        [k |-> pdefs[i].k,
         v |-> [pdefs[i].v EXCEPT !.display = display_after(pdefs[i].v, params)]]]

-----------------------------------------------------------------------------
(* Recommendations for the dependents of a modified parameter *)

\* the text make_recommendation stores at desc["range"]
recommended_range(parent_name, value) ==
    "The recommended value with the chosen " \o parent_name
        \o " would be " \o Str(value)

\* the text make_recommendation prints
recommendation(child_name, value) ==
    "It's recommended that you update " \o child_name \o " to " \o Str(value)

\* make_recommendation: the description afterwards, what was printed and
\* what was raised; a str does not support the item assignment of line 346
make_recommendation(child_name, desc, parent_name, value) ==
    IF desc.isdict
    THEN [desc |-> [desc EXCEPT
                      !.fields = [f \in DOMAIN @ \cup {"range"} |->
                                    IF f = "range"
                                    THEN recommended_range(parent_name, value)
                                    ELSE @[f]]],
          printed |-> <<recommendation(child_name, value)>>,
          error |-> NoError]
    ELSE [desc |-> desc, printed |-> <<>>,
          error |-> Raise("TypeError", "item assignment", child_name)]

RECURSIVE warn_loop(_, _, _, _, _)
\* the for loop of warn_dependents from definition i on: self.param
\* afterwards, the recommendations printed and what was raised
warn_loop(pdefs, i, mod_param, mod_value, printed) ==
    LET done(e) == [param |-> pdefs, printed |-> printed, error |-> e] IN
    IF i > Len(pdefs) THEN done(NoError)
    ELSE
    LET name == pdefs[i].k
        pdict == pdefs[i].v
        default == pdict.default
        skip == warn_loop(pdefs, i + 1, mod_param, mod_value, printed)
    IN
    IF ~IsOrderedDict(default) THEN skip
    ELSE IF Len(default.od) = 0 THEN done(Raise("IndexError", "", name))
    ELSE
    LET parent_name == OdKeyList(default.od)[1] IN
    IF parent_name # mod_param THEN skip
    ELSE IF ~IsDict(OdGet(default.od, parent_name))
    THEN done(Raise("AttributeError", "keys", name))
    ELSE IF ~OdHas(OdGet(default.od, parent_name).od, mod_value) THEN skip
    ELSE IF "description" \notin DOMAIN pdict
    THEN done(KeyError("description"))
    ELSE
    LET value == OdGet(OdGet(default.od, parent_name).od, mod_value)
        r == make_recommendation(name, pdict.description, parent_name, value)
    IN
    IF r.error # NoError THEN done(r.error)
    ELSE warn_loop([pdefs EXCEPT ![i].v.description = r.desc], i + 1,
                   mod_param, mod_value, printed \o r.printed)

\* warn_dependents(mod_param, mod_value)
warn_dependents(pdefs, mod_param, mod_value) ==
    warn_loop(pdefs, 1, mod_param, mod_value, <<>>)

-----------------------------------------------------------------------------
(* Process-list overrides (MultiParameterExpander) *)

\* self.plugin_class.name
plugin_name == "Plugin"

\* param_u.is_multi_param: a string holding the ';' of parameter tuning
is_multi_param(key, value) ==
    value.ty = "str" /\ Len(value.segs) > 1 /\ key # "preview"

\* the segments pu.convert_multi_params cannot read
malformed_segments == {"1:"}

\* pu.convert_multi_params: the list of the typed values, or an error string
convert_multi_params(key, value) ==
    LET kept == SelectSeq(value.segs, LAMBDA seg : seg # "") IN
    IF \E j \in DOMAIN kept : kept[j] \in malformed_segments
    THEN [value |-> value, error_str |-> "malformed"]
    ELSE [value |-> PyList([j \in DOMAIN kept |-> dumps(PyStr(kept[j]))]),
          error_str |-> ""]

\* plugin.alter_multi_params_dict(key, value)
alter_multi_params_dict(dict, key, value) == OdSet(dict, key, value)

\* plugin.append_extra_dims(value)
append_extra_dims(dims, value) == Append(dims, value)

\* the label of a sweep entry (line 444)
multi_label(key, value) == key \o "_params." \o TypeName(value.items[1])

\* a slip of multi_index: every entry goes to the first sweep dimension
multi_index_first(dict) == 0

\* the sweep-dimension index of a new entry (line 446)
multi_index(dict) == Len(dict)

\* a slip of __check_multi_params: a value that does not convert is stored
\* as it was given
check_multi_params_keep_raw(st, value, key) ==
    IF is_multi_param(key, value)
    THEN LET c == convert_multi_params(key, value) IN
         IF c.error_str = ""
         THEN LET set == [st EXCEPT !.parameters = OdSet(@, key, c.value)] IN
              IF Len(c.value.items) = 0
              THEN [set EXCEPT !.error = Raise("IndexError", "", key)]
              ELSE [set EXCEPT
                      !.mpd = alter_multi_params_dict(
                                  @, multi_index(st.mpd),
                                  [label |-> multi_label(key, c.value),
                                   values |-> c.value]),
                      !.dims = append_extra_dims(@, Len(c.value.items))]
         ELSE [st EXCEPT !.parameters = OdSet(@, key, value)]
    ELSE [st EXCEPT !.parameters = OdSet(@, key, value)]

\* a slip of __check_multi_params: a plain override empties the values of
\* the other parameters
check_multi_params_alone(st, value, key) ==
    IF is_multi_param(key, value)
    THEN LET c == convert_multi_params(key, value) IN
         IF c.error_str = ""
         THEN LET set == [st EXCEPT !.parameters = OdSet(@, key, c.value)] IN
              IF Len(c.value.items) = 0
              THEN [set EXCEPT !.error = Raise("IndexError", "", key)]
              ELSE [set EXCEPT
                      !.mpd = alter_multi_params_dict(
                                  @, multi_index(st.mpd),
                                  [label |-> multi_label(key, c.value),
                                   values |-> c.value]),
                      !.dims = append_extra_dims(@, Len(c.value.items))]
         ELSE st
    ELSE [st EXCEPT !.parameters =
                        [i \in DOMAIN @ |->
                            IF @[i].k = key THEN [k |-> key, v |-> value]
                            ELSE [k |-> @[i].k, v |-> PyNone]]]

\* __check_multi_params on st = [parameters, mpd, dims, error], the value-set
\* and the plugin's sweep entries and extra dimensions: st afterwards
check_multi_params(st, value, key) ==
    IF is_multi_param(key, value)
    THEN LET c == convert_multi_params(key, value) IN
         IF c.error_str = ""
         THEN LET set == [st EXCEPT !.parameters = OdSet(@, key, c.value)] IN
              IF Len(c.value.items) = 0
              THEN [set EXCEPT !.error = Raise("IndexError", "", key)]
              ELSE [set EXCEPT
                      !.mpd = alter_multi_params_dict(
                                  @, multi_index(st.mpd),
                                  [label |-> multi_label(key, c.value),
                                   values |-> c.value]),
                      !.dims = append_extra_dims(@, Len(c.value.items))]
         ELSE st
    ELSE [st EXCEPT !.parameters = OdSet(@, key, value)]

RECURSIVE set_plugin_list_parameters_add(_, _, _)
\* a slip of set_plugin_list_parameters: a key the value-set does not hold
\* is added to it
set_plugin_list_parameters_add(st, input_parameters, i) ==
    IF i > Len(input_parameters) THEN st
    ELSE
        LET key == input_parameters[i].k IN
        IF OdHas(st.parameters, key)
        THEN LET nxt == check_multi_params(st, input_parameters[i].v, key) IN
             IF nxt.error # NoError THEN nxt
             ELSE set_plugin_list_parameters_add(nxt, input_parameters, i + 1)
        ELSE set_plugin_list_parameters_add(
                 [st EXCEPT !.parameters =
                                OdSet(@, key, input_parameters[i].v)],
                 input_parameters, i + 1)

RECURSIVE set_plugin_list_parameters(_, _, _)
\* set_plugin_list_parameters from key i of input_parameters on: st afterwards
set_plugin_list_parameters(st, input_parameters, i) ==
    IF i > Len(input_parameters) THEN st
    ELSE
        LET key == input_parameters[i].k IN
        IF OdHas(st.parameters, key)
        THEN LET nxt == check_multi_params(st, input_parameters[i].v, key) IN
             IF nxt.error # NoError THEN nxt
             ELSE set_plugin_list_parameters(nxt, input_parameters, i + 1)
        ELSE [st EXCEPT !.error = Raise("ValueError", plugin_name, key)]

-----------------------------------------------------------------------------
(* The tools classes the model is run on *)

Dtype(tok) == [islist |-> FALSE, toks |-> <<tok>>]
DtypeList(toks) == [islist |-> TRUE, toks |-> toks]
Text(t) == [isdict |-> FALSE, text |-> t]

\* a record carrying the four required keys
Full(default) ==
    [dtype |-> Dtype("int"), description |-> Text("d"),
     visibility |-> "basic", default |-> default]

\* the record with one more key, or another value at a key
With(rec, key, val) ==
    [f \in DOMAIN rec \cup {key} |-> IF f = key THEN val ELSE rec[f]]

\* the record cut down to the keys of keep
Restrict(rec, keep) == [f \in DOMAIN rec \cap keep |-> rec[f]]

Entry(key, val) == [k |-> key, v |-> val]

\* the default {parent: {value: default, ...}}
Descriptor(parent, branches) == PyDict(<<Entry(parent, PyDict(branches))>>)

\* the dependency {parent: [choice, ...]}
Choices(parent, choices) == PyDict(<<Entry(parent, PyList(choices))>>)

\* records with keys left out, hidden or not, or with a dtype to check
ValidationRecords ==
    {Restrict(With(Full(PyStr("2")), "visibility", vis), keep) :
        vis \in {"basic", "hidden"},
        keep \in SUBSET four_required_keys \ {{}}}
    \cup {With(Full(PyStr("2")), "dtype", d) :
            d \in {Dtype("foo"), DtypeList(<<"int", "foo">>),
                   DtypeList(<<"int", "float">>)}}

\* one tools class declaring level, mode or both, in either order
ValidationLists ==
    {<< <<Entry(n, r)>> >> :
        n \in {"level", "mode"}, r \in ValidationRecords}
    \cup {<< <<Entry(n[1], r1), Entry(n[2], r2)>> >> :
            n \in {<<"level", "mode">>, <<"mode", "level">>},
            r1 \in ValidationRecords, r2 \in ValidationRecords}

LevelRecord == Full(PyInt("2"))

ModeRecords ==
    {Full(d) : d \in {PyStr("manual"), PyStr("auto"), PyNone,
                      Descriptor("level",
                                 <<Entry(PyInt("2"), PyStr("manual")),
                                   Entry(PyInt("1"), PyStr("auto"))>>)}}

ThresholdDefaults ==
    {PyInt("42"),
     Descriptor("mode", <<Entry(PyStr("manual"), PyInt("42")),
                          Entry(PyStr("auto"), PyInt("1"))>>),
     Descriptor("other", <<Entry(PyStr("manual"), PyInt("42"))>>)}

ThresholdDependencies ==
    {PyStr("mode"), Choices("mode", <<PyStr("manual")>>),
     PyStr("other"), Choices("other", <<PyStr("manual")>>)}

ThresholdRecords ==
    {Full(d) : d \in ThresholdDefaults}
    \cup {With(Full(PyInt("42")), "dependency", dep) :
            dep \in ThresholdDependencies}
    \cup {With(Full(Descriptor("mode",
                               <<Entry(PyStr("manual"), PyInt("42")),
                                 Entry(PyStr("auto"), PyInt("1"))>>)),
               "dependency", Choices("mode", <<PyStr("manual")>>))}

\* a base class declaring level and a derived class declaring mode and
\* threshold, or one class declaring the three, the dependent ones first
LifecycleLists ==
    {<< <<Entry("level", LevelRecord)>>,
        <<Entry("mode", m), Entry("threshold", t)>> >> :
        m \in ModeRecords, t \in ThresholdRecords}
    \cup {<< <<Entry("threshold", Full(d)), Entry("mode", m),
              Entry("level", LevelRecord)>> >> :
            m \in ModeRecords, d \in ThresholdDefaults}

\* a structured description: a mapping with a summary
Structured(summary) == [isdict |-> TRUE, fields |-> [summary |-> summary]]

\* the plain literals a default can be: numbers, strings (one of them
\* spelling a number), None, a list, an empty mapping and a mapping that
\* is no dependency descriptor
LiteralDefaults ==
    {PyInt("2"), PyStr("2"), PyStr("manual"), PyNone,
     PyList(<<PyInt("1")>>), PyDict(<<>>),
     PyDict(<<Entry("a", PyInt("1"))>>)}

\* a base class declaring one parameter, a dataset one or not, and a
\* derived class declaring mode and declaring or redeclaring another one
LiteralLists ==
    {<< <<Entry(k1, With(Full(d), "visibility", v1))>>,
        <<Entry("mode", Full(PyStr("manual"))),
          Entry(k2, With(Full(PyInt("1")), "visibility", v2))>> >> :
        k1 \in {"in_datasets", "level"}, k2 \in {"in_datasets", "level"},
        d \in LiteralDefaults,
        v1 \in {"basic", "not", "foo"}, v2 \in {"advanced", "not", "foo"}}

ModeDefinitions ==
    ModeRecords
    \cup {Full(Descriptor("other", <<Entry(PyStr("x"), PyStr("manual"))>>))}

ThresholdDefinitions ==
    ThresholdRecords
    \cup {With(Full(Descriptor("mode",
                               <<Entry(PyStr("manual"), PyInt("42")),
                                 Entry(PyStr("auto"), PyInt("1"))>>)),
               "description", Structured("s"))}

\* the tools classes of a plugin with dependent defaults, described by a
\* string or by a mapping
DependentLists ==
    {<< <<Entry("level", LevelRecord)>>,
        <<Entry("mode", m), Entry("threshold", t)>> >> :
        m \in ModeDefinitions, t \in ThresholdDefinitions}
    \cup {<< <<Entry("threshold", t), Entry("mode", m),
              Entry("level", LevelRecord)>> >> :
            m \in ModeDefinitions, t \in ThresholdDefinitions}

\* one class of three parameters, the last a dataset one, at valid and
\* invalid visibility levels
VisibilityLists ==
    {<< <<Entry("level", With(Full(PyInt("1")), "visibility", a)),
          Entry("mode", With(Full(PyStr("manual")), "visibility", b)),
          Entry("in_datasets", With(Full(PyList(<<>>)), "visibility", c))>> >> :
        a \in {"basic", "foo", "bar"}, b \in {"basic", "foo", "bar"},
        c \in {"foo", "datasets"}}

\* a description that is a mapping with a sub-map 'options' of these keys
StructuredOptions(keys) ==
    [isdict |-> TRUE, fields |-> [summary |-> "d", options |-> keys]]

OptionKeys ==
    {<<>>, <<"manual">>, <<"manual", "auto">>, <<"other">>,
     <<"auto", "other">>}

\* the record of a parameter declaring these options (none for <<>> at
\* absent) under this description
OptionRecord(desc, options, absent) ==
    IF absent THEN With(Full(PyStr("manual")), "description", desc)
    ELSE With(With(Full(PyStr("manual")), "description", desc),
              "options", options)

\* one class of two parameters, the second with options and described
\* options
OptionLists ==
    {<< <<Entry("level", Full(PyInt("1"))),
          Entry("mode", OptionRecord(desc, options, absent))>> >> :
        desc \in {StructuredOptions(keys) : keys \in OptionKeys}
                  \cup {Structured("d"), Text("d")},
        options \in {<<>>, <<"manual">>, <<"manual", "auto">>},
        absent \in BOOLEAN}

DefinitionLists ==
    LiteralLists \cup DependentLists \cup VisibilityLists \cup OptionLists

\* two parameters whose defaults depend on each other
CyclicLists ==
    {<< <<Entry("mode",
                Full(Descriptor("threshold",
                                <<Entry(PyInt("42"), PyStr("manual"))>>))),
          Entry("threshold",
                Full(Descriptor("mode",
                                <<Entry(PyStr("manual"), PyInt("42"))>>)))>> >>}

ResolutionLists == LifecycleLists \cup CyclicLists

\* the parameter and the value warn_dependents is told of
ModifiedParameters == {"level", "mode"}
ModifiedValues == {PyStr("manual"), PyStr("auto"), PyInt("2"), PyStr("x")}

\* the values a process list gives a parameter
OverrideValues(key) ==
    IF key = "mode"
    THEN {PyStr("auto"), PyStr("manual"), PyStr("None"),
          PyMulti(<<"1", "2">>)}
    ELSE IF key = "threshold"
    THEN {PyMulti(<<"1", "x", "3">>), PyMulti(<<"1:", "2">>),
          PyMulti(<<"", "">>)}
    ELSE {PyStr("auto")}

OverrideKeys == {"mode", "threshold", "bogus"}

RECURSIVE OverrideMaps(_)
\* the mappings of exactly n keys
OverrideMaps(n) ==
    IF n = 0 THEN {<<>>}
    ELSE {Append(m, Entry(key, val)) :
            m \in OverrideMaps(n - 1),
            key \in OverrideKeys, val \in UNION {OverrideValues(k) : k \in OverrideKeys}}

\* the process-list mappings initialise is given
Overrides ==
    {m \in UNION {OverrideMaps(n) : n \in 0..MaxOverrides} :
        /\ \A i, j \in DOMAIN m : i # j => m[i].k # m[j].k
        /\ \A i \in DOMAIN m : m[i].v \in OverrideValues(m[i].k)}

\* the mapping without one key
Without(od, key) == SelectSeq(od, LAMBDA e : e.k # key)

-----------------------------------------------------------------------------
(* Docstrings (PluginDocumentation, set_docstring) *)

\* a docstring: its paragraphs (separated by an empty line), each the
\* sequence of its lines
PyText(paras) == [ty |-> "str", paras |-> paras]

\* a tools class with no docstring and no docstring on config_warn
NoDocstrings == [doc |-> PyNone, config_warn |-> PyNone]

\* dict.get(key): None for an absent key
DictGet(od, key) == IF OdHas(od, key) THEN OdGet(od, key) ELSE PyNone

\* doc.find_synopsis(plugin)
find_synopsis == PyStr("synopsis")

\* doc.remove_new_lines(l): the lines of one paragraph made one line
remove_new_lines(lines) == Join(lines, " ")

\* self.docstring_info after set_docstring(doc_str)
set_docstring(info, doc_str) ==
    LET a == OdSet(info, "info", DictGet(doc_str, "verbose"))
        b == OdSet(a, "warn", DictGet(doc_str, "warn"))
        c == OdSet(b, "documentation_link",
                   DictGet(doc_str, "documentation_link"))
    IN  OdSet(c, "synopsis", find_synopsis)

-----------------------------------------------------------------------------
(* The state machine *)

Unset == "unset"

InitWith(lists) ==
    /\ tools_list \in lists
    /\ pc = "populate_parameters"
    /\ next_tool = 1
    /\ param = <<>>
    /\ parameters = <<>>
    /\ plugin_has_parameters = FALSE
    /\ multi_params_dict = Unset
    /\ extra_dims = Unset
    /\ plugin_multi_params_dict = <<>>
    /\ plugin_extra_dims = <<>>
    /\ error = NoError
    /\ missing_key_dict = <<>>
    /\ dtype_report = <<>>
    /\ last = [op |-> "__init__"]
    /\ initialised = 0
    /\ loop_index = 0
    /\ stack = <<>>
    /\ visibility_report = <<>>
    /\ tools_cite = [i \in DOMAIN tools_list |-> <<>>]
    /\ tools_doc = [i \in DOMAIN tools_list |-> NoDocstrings]
    /\ cite = <<>>
    /\ doc = <<>>
    /\ docstring_info = <<>>
    /\ returned = PyNone

Init == InitWith(LifecycleLists)

InitValidation == InitWith(ValidationLists)

\* populate_parameters, one tools class of the map over tools_list:
\* _set_parameter_definitions(tool_class)
SetParameterDefinitions ==
    /\ pc = "populate_parameters"
    /\ next_tool <= Len(tools_list)
    /\ LET r == set_parameter_definitions(param, tools_list[next_tool]) IN
        /\ param' = r.param
        /\ error' = r.error
        /\ missing_key_dict' = r.missing
        /\ dtype_report' = r.printed
        /\ visibility_report' = r.visibility
        /\ pc' = IF r.error = NoError THEN pc ELSE "failed"
    /\ next_tool' = next_tool + 1
    /\ last' = [op |-> "_set_parameter_definitions",
                tool_class |-> tools_list[next_tool]]
    /\ UNCHANGED <<tools_cite, tools_doc, cite, doc, docstring_info, returned,
                   tools_list, parameters, plugin_has_parameters,
                   multi_params_dict, extra_dims, plugin_multi_params_dict,
                   plugin_extra_dims, initialised, loop_index, stack>>

\* a slip of populate_default_parameters: the plugin is given the mapping
\* before the dependent defaults are resolved
populate_default_parameters_set_first(pdefs) ==
    LET defaults == [i \in DOMAIN pdefs |->
                        Entry(pdefs[i].k, pdefs[i].v.default)]
        upd == update_dependent_defaults(pdefs, defaults)
    IN  [parameters |-> upd.parameters,
         param |-> IF upd.error = NoError
                   THEN check_dependencies(pdefs, upd.parameters)
                   ELSE pdefs,
         set_parameters |-> TRUE,
         error |-> upd.error]

\* self.parameters, self.param and what is raised by
\* _populate_default_parameters, and whether it got to set_parameters (line 82)
populate_default_parameters(pdefs) ==
    LET defaults == [i \in DOMAIN pdefs |->
                        Entry(pdefs[i].k, pdefs[i].v.default)]
        upd == update_dependent_defaults(pdefs, defaults)
    IN  [parameters |-> upd.parameters,
         param |-> IF upd.error = NoError
                   THEN check_dependencies(pdefs, upd.parameters)
                   ELSE pdefs,
         set_parameters |-> upd.error = NoError,
         error |-> upd.error]

\* populate_parameters, after the map: _populate_default_parameters()
PopulateDefaultParameters ==
    /\ pc = "populate_parameters"
    /\ next_tool > Len(tools_list)
    /\ LET r == populate_default_parameters(param) IN
        /\ parameters' = r.parameters
        /\ param' = r.param
        /\ error' = r.error
        /\ plugin_has_parameters' = r.set_parameters
        /\ pc' = IF r.error = NoError THEN "ready" ELSE "failed"
    /\ docstring_info' = set_docstring(docstring_info, doc)
    /\ last' = [op |-> "_populate_default_parameters"]
    /\ UNCHANGED <<visibility_report, tools_cite, tools_doc, cite, doc, returned,
                   tools_list, next_tool, multi_params_dict, extra_dims,
                   plugin_multi_params_dict, plugin_extra_dims,
                   missing_key_dict, dtype_report, initialised, loop_index,
                   stack>>

\* copy.deepcopy(v): an equal value that shares nothing with v
deepcopy(v) == v

\* initialise(params); last.params is the caller's mapping, of which the
\* call only has a copy
Initialise(params) ==
    /\ pc = "ready"
    /\ initialised < MaxInitialise
    /\ LET st == set_plugin_list_parameters(
                    [parameters |-> parameters,
                     mpd |-> plugin_multi_params_dict,
                     dims |-> plugin_extra_dims, error |-> NoError],
                    deepcopy(params), 1)
       IN
        /\ parameters' = st.parameters
        /\ plugin_multi_params_dict' = st.mpd
        /\ plugin_extra_dims' = st.dims
        /\ error' = st.error
        /\ multi_params_dict' = IF st.error = NoError THEN <<>>
                                ELSE multi_params_dict
        /\ extra_dims' = IF st.error = NoError THEN <<>> ELSE extra_dims
    /\ initialised' = initialised + 1
    /\ last' = [op |-> "initialise", params |-> params]
    /\ UNCHANGED <<visibility_report, tools_cite, tools_doc, cite, doc, docstring_info, returned,
                   pc, tools_list, next_tool, param, plugin_has_parameters,
                   missing_key_dict, dtype_report, loop_index, stack>>

\* check_dependencies(arg)
CheckDependencies(arg) ==
    /\ pc = "ready"
    /\ param' = check_dependencies(param, arg)
    /\ error' = NoError
    /\ last' = [op |-> "check_dependencies", parameters |-> arg]
    /\ UNCHANGED <<visibility_report, tools_cite, tools_doc, cite, doc, docstring_info, returned,
                   pc, tools_list, next_tool, parameters,
                   plugin_has_parameters, multi_params_dict, extra_dims,
                   plugin_multi_params_dict, plugin_extra_dims,
                   missing_key_dict, dtype_report, initialised, loop_index,
                   stack>>

\* _populate_default_parameters() called again on the constructed object
Repopulate ==
    /\ pc = "ready"
    /\ LET r == populate_default_parameters(param) IN
        /\ parameters' = r.parameters
        /\ param' = r.param
        /\ error' = r.error
        /\ plugin_has_parameters' = (plugin_has_parameters \/ r.set_parameters)
    /\ docstring_info' = set_docstring(docstring_info, doc)
    /\ last' = [op |-> "_populate_default_parameters", repeated |-> TRUE]
    /\ UNCHANGED <<visibility_report, tools_cite, tools_doc, cite, doc, returned,
                   pc, tools_list, next_tool, multi_params_dict, extra_dims,
                   plugin_multi_params_dict, plugin_extra_dims,
                   missing_key_dict, dtype_report, initialised, loop_index,
                   stack>>

\* warn_dependents(mod_param, mod_value)
WarnDependents(mod_param, mod_value) ==
    /\ pc = "ready"
    /\ LET r == warn_dependents(param, mod_param, mod_value) IN
        /\ param' = r.param
        /\ error' = r.error
    /\ last' = [op |-> "warn_dependents", mod_param |-> mod_param,
                mod_value |-> mod_value]
    /\ UNCHANGED <<visibility_report, tools_cite, tools_doc, cite, doc, docstring_info, returned,
                   pc, tools_list, next_tool, parameters,
                   plugin_has_parameters, multi_params_dict, extra_dims,
                   plugin_multi_params_dict, plugin_extra_dims,
                   missing_key_dict, dtype_report, initialised, loop_index,
                   stack>>

\* _populate_default_parameters up to line 77, taken step by step: the
\* value mapping starts from the defaults as they are defined
PopulateDefaults ==
    /\ pc = "populate_parameters"
    /\ next_tool > Len(tools_list)
    /\ parameters' = [i \in DOMAIN param |->
                        Entry(param[i].k, param[i].v.default)]
    /\ loop_index' = 1
    /\ pc' = "update_dependent_defaults"
    /\ docstring_info' = set_docstring(docstring_info, doc)
    /\ last' = [op |-> "_populate_default_parameters"]
    /\ UNCHANGED <<visibility_report, tools_cite, tools_doc, cite, doc, returned,
                   tools_list, next_tool, param, plugin_has_parameters,
                   multi_params_dict, extra_dims, plugin_multi_params_dict,
                   plugin_extra_dims, error, missing_key_dict, dtype_report,
                   initialised, stack>>

\* one turn of the for loop of update_dependent_defaults: it calls
\* get_dependent_default or moves on; after the last definition
\* _populate_default_parameters ends with lines 81 and 82
UpdateDependentDefaults ==
    /\ pc = "update_dependent_defaults"
    /\ stack = <<>>
    /\ IF loop_index > Len(param)
       THEN /\ param' = check_dependencies(param, parameters)
            /\ plugin_has_parameters' = TRUE
            /\ pc' = "ready"
            /\ UNCHANGED <<loop_index, stack>>
       ELSE /\ IF /\ Truthy(param[loop_index].v.default)
                  /\ IsDict(param[loop_index].v.default)
               THEN /\ stack' = <<Frame(param[loop_index].v)>>
                    /\ UNCHANGED loop_index
               ELSE /\ loop_index' = next_index(loop_index)
                    /\ UNCHANGED stack
            /\ UNCHANGED <<param, plugin_has_parameters, pc>>
    /\ UNCHANGED <<visibility_report, tools_cite, tools_doc, cite, doc, docstring_info, returned,
                   tools_list, next_tool, parameters, multi_params_dict,
                   extra_dims, plugin_multi_params_dict, plugin_extra_dims,
                   error, missing_key_dict, dtype_report, last, initialised>>

\* the innermost call of get_dependent_default runs from its entry to the
\* call of itself or to line 327
GetDependentDefault ==
    /\ pc = "update_dependent_defaults"
    /\ stack # <<>>
    /\ stack[Len(stack)].at = "entry"
    /\ LET top == stack[Len(stack)]
           r == enter_dependent_default(top.child, param)
       IN  IF r.kind = "raise"
           THEN /\ error' = r.error
                /\ pc' = "failed"
                /\ stack' = <<>>
           ELSE /\ stack' =
                     IF r.kind = "recurse"
                     THEN Append([stack EXCEPT
                                    ![Len(stack)].parent_name = r.parent_name,
                                    ![Len(stack)].at = "assign"],
                                 Frame(r.argument))
                     ELSE [stack EXCEPT
                             ![Len(stack)].parent_name = r.parent_name,
                             ![Len(stack)].at = "select"]
                /\ UNCHANGED <<error, pc>>
    /\ UNCHANGED <<visibility_report, tools_cite, tools_doc, cite, doc, docstring_info, returned,
                   tools_list, next_tool, param, parameters,
                   plugin_has_parameters, multi_params_dict, extra_dims,
                   plugin_multi_params_dict, plugin_extra_dims,
                   missing_key_dict, dtype_report, last, initialised,
                   loop_index>>

\* the innermost call of get_dependent_default returns the branch of line
\* 327 to its caller: to line 325 of the call that made it, or to line 294
ReturnDependentDefault ==
    /\ pc = "update_dependent_defaults"
    /\ stack # <<>>
    /\ stack[Len(stack)].at = "select"
    /\ LET top == stack[Len(stack)]
           r == select_dependent_default(top.child, top.parent_name,
                                         parameters)
           callers == SubSeq(stack, 1, Len(stack) - 1)
       IN  IF r.error # NoError
           THEN /\ error' = r.error
                /\ pc' = "failed"
                /\ stack' = <<>>
                /\ UNCHANGED <<parameters, loop_index>>
           ELSE IF callers = <<>>
           THEN /\ parameters' = OdSet(parameters, param[loop_index].k,
                                       r.value)
                /\ loop_index' = next_index(loop_index)
                /\ stack' = <<>>
                /\ UNCHANGED <<error, pc>>
           ELSE /\ parameters' = OdSet(parameters,
                                       callers[Len(callers)].parent_name,
                                       r.value)
                /\ stack' = [callers EXCEPT ![Len(callers)].at = "select"]
                /\ UNCHANGED <<error, pc, loop_index>>
    /\ UNCHANGED <<visibility_report, tools_cite, tools_doc, cite, doc, docstring_info, returned,
                   tools_list, next_tool, param, plugin_has_parameters,
                   multi_params_dict, extra_dims, plugin_multi_params_dict,
                   plugin_extra_dims, missing_key_dict, dtype_report, last,
                   initialised>>

Construct ==
    \/ SetParameterDefinitions
    \/ PopulateDefaultParameters

Next ==
    \/ SetParameterDefinitions
    \/ PopulateDefaultParameters
    \/ \E params \in Overrides : Initialise(params)
    \/ \E arg \in {parameters} \cup {Without(parameters, key) :
                                        key \in OdKeys(parameters)} :
          CheckDependencies(arg)

Spec == Init /\ [][Next]_vars

SpecValidation == InitValidation /\ [][Construct]_vars

InitDefinitions == InitWith(DefinitionLists)

\* construction, and then the operations that read the definitions again
NextDefinitions ==
    \/ SetParameterDefinitions
    \/ PopulateDefaultParameters
    \/ Repopulate
    \/ \E mod_param \in ModifiedParameters, mod_value \in ModifiedValues :
          WarnDependents(mod_param, mod_value)

SpecDefinitions == InitDefinitions /\ [][NextDefinitions]_vars

InitResolution == InitWith(ResolutionLists)

\* construction with the resolution of the defaults taken call by call
NextResolution ==
    \/ SetParameterDefinitions
    \/ PopulateDefaults
    \/ UpdateDependentDefaults
    \/ GetDependentDefault
    \/ ReturnDependentDefault

\* every call that is in progress goes on: a Python thread does not stop
SpecResolution ==
    InitResolution /\ [][NextResolution]_vars /\ WF_vars(NextResolution)

-----------------------------------------------------------------------------
(* Citations (PluginCitations) *)

\* the member names of a tools class that start with 'citation'
CitationNames == {"citation", "citation1", "citation2"}

\* key.startswith('citation')
startswith_citation(key) == key \in CitationNames

\* isinstance(current_citation, OrderedDict), for what load_yaml_doc returned
IsOrderedDictValue(v) == v.ty = "dict"

\* _load_cite_from_doc: the entries method name -> citation record of a
\* class, from its members (name -> what the docstring loads as, None for
\* no docstring)
load_cite_from_doc(members) ==
    SelectSeq(members,
              LAMBDA e : /\ startswith_citation(e.k)
                         /\ e.v # PyNone
                         /\ IsOrderedDictValue(e.v))

\* all_keys of _citation_keys_valid
all_keys ==
    {"short_name_article", "description", "bibtex", "endnote", "doi",
     "dependency"}

\* _citation_keys_valid: what it returns and the additional keys it prints
citation_keys_valid(new_citation) ==
    [valid |-> OdHas(new_citation, "description"),
     additional |-> SelectSeq(OdKeyList(new_citation),
                              LAMBDA k : k \notin all_keys)]

\* CitationInformation.name: the short name of the article when the record
\* has one and a bibtex or endnote block, else the description
citation_name(citation) ==
    IF /\ OdHas(citation, "short_name_article")
       /\ OdHas(citation, "bibtex") \/ OdHas(citation, "endnote")
    THEN Str(OdGet(citation, "short_name_article"))
    ELSE Str(OdGet(citation, "description"))

\* CitationInformation(**citation)
CitationInformation(citation) ==
    [name |-> citation_name(citation),
     description |-> OdGet(citation, "description"),
     fields |-> citation]

RECURSIVE citations_loop_by_method(_, _, _, _, _)
\* a slip of the loop of _set_plugin_citations: the citation is stored
\* under the name of its method
citations_loop_by_method(meta, citations, i, accepted, log) ==
    IF i > Len(citations)
    THEN [cite |-> meta, error |-> NoError, log |-> log]
    ELSE
        LET citation == citations[i].v.od
            keys == citation_keys_valid(citation)
            reported == IF Len(keys.additional) > 0
                        THEN Append(log.additional, keys.additional)
                        ELSE log.additional
        IN
        IF ~keys.valid
        THEN citations_loop_by_method(meta, citations, i + 1, accepted,
                            [additional |-> reported,
                             not_saved |-> log.not_saved + 1])
        ELSE IF Len(keys.additional) > 0 /\ ~accepted
        THEN [cite |-> meta,
              error |-> Raise("TypeError", "CitationInformation",
                              keys.additional[1]),
              log |-> [log EXCEPT !.additional = reported]]
        ELSE
            LET new_citation == CitationInformation(citation) IN
            citations_loop_by_method(OdSet(meta, citations[i].k, new_citation),
                           citations, i + 1, accepted,
                           [log EXCEPT !.additional = reported])

RECURSIVE citations_loop(_, _, _, _, _)
\* the for loop of _set_plugin_citations from record i on. accepted says
\* whether CitationInformation takes a keyword it does not know; log is
\* what was printed so far
citations_loop(meta, citations, i, accepted, log) ==
    IF i > Len(citations)
    THEN [cite |-> meta, error |-> NoError, log |-> log]
    ELSE
        LET citation == citations[i].v.od
            keys == citation_keys_valid(citation)
            reported == IF Len(keys.additional) > 0
                        THEN Append(log.additional, keys.additional)
                        ELSE log.additional
        IN
        IF ~keys.valid
        THEN citations_loop(meta, citations, i + 1, accepted,
                            [additional |-> reported,
                             not_saved |-> log.not_saved + 1])
        ELSE IF Len(keys.additional) > 0 /\ ~accepted
        THEN [cite |-> meta,
              error |-> Raise("TypeError", "CitationInformation",
                              keys.additional[1]),
              log |-> [log EXCEPT !.additional = reported]]
        ELSE
            LET new_citation == CitationInformation(citation) IN
            citations_loop(OdSet(meta, new_citation.name, new_citation),
                           citations, i + 1, accepted,
                           [log EXCEPT !.additional = reported])

\* _set_plugin_citations: self.cite afterwards, what it raises and what it
\* printed
set_plugin_citations(meta, members, accepted) ==
    citations_loop(meta, load_cite_from_doc(members), 1, accepted,
                   [additional |-> <<>>, not_saved |-> 0])

\* get_citations()
get_citations == cite

-----------------------------------------------------------------------------
(* Documentation (PluginDocumentation) *)

\* set_warn: the docstring of config_warn of the last tools class; with
\* more than one paragraph each paragraph is made one line
set_warn(config_str) ==
    IF config_str # PyNone /\ Len(config_str.paras) > 1
    THEN PyText(<<[i \in DOMAIN config_str.paras |->
                      remove_new_lines(config_str.paras[i])]>>)
    ELSE config_str

sphinx_link == PyStr("https://savu.readthedocs.io/en/latest/documentation")

\* set_doc: self.doc afterwards; isfile says whether the documentation
\* file of the plugin exists
set_doc(meta, docs, isfile) ==
    LET top == docs[Len(docs)]
        a == OdSet(meta, "verbose", top.doc)
        b == OdSet(a, "warn", set_warn(top.config_warn))
    IN  IF isfile THEN OdSet(b, "documentation_link", sphinx_link) ELSE b

\* get_doc()
get_doc == doc

\* get_param_definitions() and get_param_values()
get_param_definitions == param
get_param_values == parameters

-----------------------------------------------------------------------------
(* check_for_default *)

\* check_for_default(value, param_name, parameters): what it returns or
\* raises. self._set_default is no attribute of the class
check_for_default(pdefs, value, param_name, params) ==
    IF Str(value) = "default"
    THEN IF ~OdHas(pdefs, param_name)
         THEN [value |-> PyNone, error |-> KeyError(param_name)]
         ELSE IF "default" \notin DOMAIN OdGet(pdefs, param_name)
         THEN [value |-> PyNone, error |-> KeyError("default")]
         ELSE [value |-> PyNone,
               error |-> Raise("AttributeError", "_set_default", "")]
    ELSE [value |-> value, error |-> NoError]

-----------------------------------------------------------------------------
(* The construction of PluginTools in full: _set_tools_data *)

\* the records a citation docstring loads as
CitationRecords ==
    {<<Entry("description", PyStr("first"))>>,
     <<Entry("description", PyStr("second")), Entry("bibtex", PyStr("@article")),
       Entry("short_name_article", PyStr("short"))>>,
     <<Entry("bibtex", PyStr("@article"))>>,
     <<Entry("description", PyStr("third")), Entry("author", PyStr("a"))>>,
     <<Entry("author", PyStr("a"))>>}

\* what a member's docstring loads as: nothing (no docstring), a value
\* that is no mapping, or a record
CitationDocs ==
    {PyNone, PyStr("text")} \cup {PyDict(r) : r \in CitationRecords}

\* the members of the base tools class and of the derived one
CitationMembers ==
    {<< base,
        <<Entry("define_parameters", PyDict(<<Entry("description", PyStr("p"))>>)),
          Entry("citation", a), Entry("citation2", b)>> >> :
        base \in {<<>>, <<Entry("citation",
                                PyDict(<<Entry("description", PyStr("first"))>>))>>},
        a \in CitationDocs, b \in CitationDocs}

\* the docstrings of the base tools class and of the derived one
Docstrings ==
    {<< [doc |-> PyText(<<<<"base">>>>), config_warn |-> PyNone],
        [doc |-> d, config_warn |-> w] >> :
        d \in {PyNone, PyText(<<<<"A plugin">>>>)},
        w \in {PyNone, PyText(<<<<"one", "warning">>>>),
               PyText(<<<<"first", "warning">>, <<"second">>>>)}}

\* a base class declaring mode and a derived class declaring level, with
\* a plain default, a dependent one, the word 'default', or a key missing
ToolsLists ==
    {<< <<Entry("mode", Full(PyStr("manual")))>>, <<Entry("level", r)>> >> :
        r \in {Full(PyInt("2")),
               Full(Descriptor("mode", <<Entry(PyStr("manual"), PyInt("42")),
                                         Entry(PyStr("auto"), PyInt("1"))>>)),
               Restrict(Full(PyInt("2")), {"dtype", "default"})}}

InitTools ==
    /\ tools_list \in ToolsLists
    /\ tools_cite \in CitationMembers
    /\ tools_doc \in Docstrings
    /\ pc = "populate_parameters"
    /\ next_tool = 1
    /\ param = <<>>
    /\ parameters = <<>>
    /\ plugin_has_parameters = FALSE
    /\ multi_params_dict = Unset
    /\ extra_dims = Unset
    /\ plugin_multi_params_dict = <<>>
    /\ plugin_extra_dims = <<>>
    /\ error = NoError
    /\ missing_key_dict = <<>>
    /\ dtype_report = <<>>
    /\ last = [op |-> "__init__"]
    /\ initialised = 0
    /\ loop_index = 0
    /\ stack = <<>>
    /\ visibility_report = <<>>
    /\ cite = <<>>
    /\ doc = <<>>
    /\ docstring_info = <<>>
    /\ returned = PyNone

RECURSIVE definitions_loop(_, _, _)
\* the map of populate_parameters over the tools classes from class i on:
\* what _set_parameter_definitions gave for the last class it was called on
definitions_loop(r, tools, i) ==
    IF i > Len(tools) \/ r.error # NoError THEN r
    ELSE definitions_loop(set_parameter_definitions(r.param, tools[i]),
                          tools, i + 1)

\* populate_parameters(tools_list), the whole call
PopulateParameters ==
    /\ pc = "populate_parameters"
    /\ next_tool = 1
    /\ LET defs == definitions_loop(
                      [param |-> param, error |-> NoError, missing |-> <<>>,
                       printed |-> <<>>, visibility |-> <<>>],
                      tools_list, 1)
           r == populate_default_parameters(defs.param)
       IN
        /\ missing_key_dict' = defs.missing
        /\ dtype_report' = defs.printed
        /\ visibility_report' = defs.visibility
        /\ IF defs.error # NoError
           THEN /\ param' = defs.param
                /\ error' = defs.error
                /\ pc' = "failed"
                /\ UNCHANGED <<parameters, plugin_has_parameters,
                               docstring_info>>
           ELSE /\ param' = r.param
                /\ parameters' = r.parameters
                /\ error' = r.error
                /\ plugin_has_parameters' = r.set_parameters
                /\ docstring_info' = set_docstring(docstring_info, get_doc)
                /\ pc' = IF r.error = NoError THEN "set_cite" ELSE "failed"
    /\ last' = [op |-> "populate_parameters"]
    /\ UNCHANGED <<tools_list, tools_cite, tools_doc, next_tool, cite, doc,
                   returned, multi_params_dict, extra_dims,
                   plugin_multi_params_dict, plugin_extra_dims, initialised,
                   loop_index, stack>>

\* set_cite, one tools class of the map over tools_list:
\* _set_plugin_citations(tool_class)
SetPluginCitations ==
    /\ pc = "set_cite"
    /\ next_tool <= Len(tools_list)
    /\ \E accepted \in BOOLEAN :
        LET r == set_plugin_citations(cite, tools_cite[next_tool], accepted)
        IN
        /\ cite' = r.cite
        /\ error' = r.error
        /\ pc' = IF r.error # NoError THEN "failed"
                 ELSE IF next_tool = Len(tools_list) THEN "set_doc"
                 ELSE pc
        /\ last' = [op |-> "_set_plugin_citations",
                    members |-> tools_cite[next_tool],
                    additional |-> r.log.additional,
                    not_saved |-> r.log.not_saved]
    /\ next_tool' = next_tool + 1
    /\ UNCHANGED <<tools_list, tools_cite, tools_doc, doc, docstring_info,
                   returned, param, parameters, plugin_has_parameters,
                   multi_params_dict, extra_dims, plugin_multi_params_dict,
                   plugin_extra_dims, missing_key_dict, dtype_report,
                   visibility_report, initialised, loop_index, stack>>

\* set_doc(tools_list): the last call of _set_tools_data
SetDoc ==
    /\ pc = "set_doc"
    /\ \E isfile \in BOOLEAN : doc' = set_doc(doc, tools_doc, isfile)
    /\ pc' = "ready"
    /\ last' = [op |-> "set_doc"]
    /\ UNCHANGED <<tools_list, tools_cite, tools_doc, next_tool, cite,
                   docstring_info, returned, param, parameters, error,
                   plugin_has_parameters, multi_params_dict, extra_dims,
                   plugin_multi_params_dict, plugin_extra_dims,
                   missing_key_dict, dtype_report, visibility_report,
                   initialised, loop_index, stack>>

\* check_for_default(value, param_name, parameters)
CheckForDefault(value, param_name, params) ==
    /\ pc = "ready"
    /\ LET r == check_for_default(param, value, param_name, params) IN
        /\ returned' = r.value
        /\ error' = r.error
    /\ last' = [op |-> "check_for_default", value |-> value,
                param_name |-> param_name, parameters |-> params]
    /\ UNCHANGED <<tools_list, tools_cite, tools_doc, next_tool, cite, doc,
                   docstring_info, pc, param, parameters,
                   plugin_has_parameters, multi_params_dict, extra_dims,
                   plugin_multi_params_dict, plugin_extra_dims,
                   missing_key_dict, dtype_report, visibility_report,
                   initialised, loop_index, stack>>

\* the values check_for_default is asked about, and the parameter names
DefaultValues == {PyStr("default"), PyStr("auto"), PyInt("3"), PyNone}
DefaultNames == {"mode", "level", "absent"}

\* _set_tools_data, and then check_for_default on the constructed object
NextTools ==
    \/ PopulateParameters
    \/ SetPluginCitations
    \/ SetDoc
    \/ \E value \in DefaultValues, param_name \in DefaultNames :
          CheckForDefault(value, param_name, parameters)

SpecTools == InitTools /\ [][NextTools]_vars

-----------------------------------------------------------------------------
(* Parameter tuning: _set_parameters_this_instance *)

\* the names of parameters, one of them containing '_param'
ParameterNames == {"mode", "threshold", "level", "bogus", "n_params"}

\* the names of the types of the values of a sweep
TypeNames == {"int", "float", "str", "NoneType", "list", "dict"}

\* name.split('_param')[0]
split_param(name) == IF name = "n_params" THEN "n" ELSE name

\* info['label'].split('_param')[0], the label being key + '_params.' + type
label_name(label) ==
    split_param(CHOOSE k \in ParameterNames :
                    \E t \in TypeNames : label = k \o "_params." \o t)

RECURSIVE this_instance_loop(_, _, _, _)
\* the for loop of _set_parameters_this_instance at count: self.parameters
\* afterwards and what it raises
this_instance_loop(params, dict, indices, count) ==
    IF count >= Len(dict) THEN [parameters |-> params, error |-> NoError]
    ELSE IF count + 1 > Len(indices)
    THEN [parameters |-> params, error |-> Raise("IndexError", "indices", "")]
    ELSE
        LET info == dict[count + 1].v
            index == indices[count + 1]
        IN  IF index >= Len(info.values.items)
            THEN [parameters |-> params,
                  error |-> Raise("IndexError", "values", "")]
            ELSE this_instance_loop(
                     OdSet(params, label_name(info.label),
                           info.values.items[index + 1]),
                     dict, indices, count + 1)

\* _set_parameters_this_instance(indices), reading self.multi_params_dict of
\* the tools object, which has no such attribute before initialise
set_parameters_this_instance(params, dict, indices) ==
    IF dict = Unset
    THEN [parameters |-> params,
          error |-> Raise("AttributeError", "multi_params_dict", "")]
    ELSE this_instance_loop(params, dict, indices, 0)

\* _set_parameters_this_instance(indices)
SetParametersThisInstance(indices) ==
    /\ pc = "ready"
    /\ LET r == set_parameters_this_instance(parameters, multi_params_dict,
                                             indices)
       IN
        /\ parameters' = r.parameters
        /\ error' = r.error
    /\ last' = [op |-> "_set_parameters_this_instance", indices |-> indices]
    /\ UNCHANGED <<tools_list, tools_cite, tools_doc, next_tool, cite, doc,
                   docstring_info, returned, pc, param,
                   plugin_has_parameters, multi_params_dict, extra_dims,
                   plugin_multi_params_dict, plugin_extra_dims,
                   missing_key_dict, dtype_report, visibility_report,
                   initialised, loop_index, stack>>

\* the indices of the current values in the parameter tuning lists
Indices == {<<0>>, <<1>>, <<0, 1>>, <<1, 2>>}

\* a base class declaring level and a derived class declaring mode and
\* threshold, with plain defaults or threshold depending on mode
SweepLists ==
    {<< <<Entry("level", LevelRecord)>>,
        <<Entry("mode", Full(PyStr("manual"))), Entry("threshold", Full(d))>> >> :
        d \in {PyInt("42"),
               Descriptor("mode", <<Entry(PyStr("manual"), PyInt("42")),
                                    Entry(PyStr("auto"), PyInt("1"))>>)}}

InitSweep == InitWith(SweepLists)

\* construction, and then the overrides of a process list and the choice
\* of the values of one instance
NextSweep ==
    \/ SetParameterDefinitions
    \/ PopulateDefaultParameters
    \/ \E params \in Overrides : Initialise(params)
    \/ \E indices \in Indices : SetParametersThisInstance(indices)

SpecSweep == InitSweep /\ [][NextSweep]_vars

-----------------------------------------------------------------------------
(* Properties *)

\* the definitions whose default is a dependency descriptor
HasDescriptor(pdict) == IsDict(pdict.default) /\ Len(pdict.default.od) > 0

ParentOf(pdict) == OdKeyList(pdict.default.od)[1]

BranchesOf(pdict) == OdGet(pdict.default.od, ParentOf(pdict)).od

RECURSIVE Resolved(_, _)
\* the default of a parameter as the chain of descriptors determines it:
\* a literal, or the branch its parent's resolved value selects
Resolved(pdefs, name) ==
    LET pdict == OdGet(pdefs, name) IN
    IF HasDescriptor(pdict)
    THEN OdGet(BranchesOf(pdict), Resolved(pdefs, ParentOf(pdict)))
    ELSE pdict.default

RECURSIVE ChainDepth(_, _)
\* the number of descriptors between a parameter and a literal default, or
\* -1 when the chain names an unknown parent or a value without a branch
ChainDepth(pdefs, name) ==
    LET pdict == OdGet(pdefs, name) IN
    IF ~HasDescriptor(pdict) THEN 0
    ELSE IF ~OdHas(pdefs, ParentOf(pdict)) THEN -1
    ELSE IF ChainDepth(pdefs, ParentOf(pdict)) = -1 THEN -1
    ELSE IF ~OdHas(BranchesOf(pdict), Resolved(pdefs, ParentOf(pdict)))
    THEN -1
    ELSE ChainDepth(pdefs, ParentOf(pdict)) + 1

\* C1: for a chain of dependency-descriptor defaults of any depth N >= 1
\* that ends in a literal, default resolution at construction raises nothing
\* and leaves every chained parameter with the branch its parent's resolved
\* value selects.
C1_ChainOfDefaultsResolves ==
    (/\ last.op = "_populate_default_parameters"
     /\ \A i \in DOMAIN param : ChainDepth(param, param[i].k) >= 0)
    => /\ error = NoError
       /\ \A i \in DOMAIN param :
            OdGet(parameters, param[i].k) = Resolved(param, param[i].k)

\* the non-hidden records of a class that omit a required key
Offending(param_info_dict) ==
    {i \in DOMAIN param_info_dict :
        /\ ~IsHidden(param_info_dict[i].v)
        /\ ~(four_required_keys \subseteq DOMAIN param_info_dict[i].v)}

\* C2: if a record that is not hidden omits one of dtype, description,
\* visibility and default, _check_required_keys fails and reports every such
\* parameter of the class with exactly the keys it misses, whatever the
\* order of hidden and other records.
C2_AllMissingKeysReported ==
    (/\ last.op = "_set_parameter_definitions"
     /\ Offending(last.tool_class) # {})
    => /\ error = Raise("Exception", "MissingKeys", "")
       /\ \A i \in Offending(last.tool_class) :
            /\ OdHas(missing_key_dict, last.tool_class[i].k)
            /\ OdGet(missing_key_dict, last.tool_class[i].k)
                 = four_required_keys \ DOMAIN last.tool_class[i].v

\* the keys of an override mapping the value-set does not hold
UnknownKeys(params) ==
    {params[i].k : i \in DOMAIN params} \ OdKeys(parameters)

\* C3: initialise with a mapping that holds an unknown key raises, and when
\* it raises the ValueError naming that key and the plugin, the value-set
\* and the plugin's sweep entries are as they were before the call.
C3_UnknownKeyChangesNothing ==
    [][(initialised' = initialised + 1 /\ UnknownKeys(last'.params) # {})
       => /\ error' # NoError
          /\ error'.type = "ValueError"
               => /\ error'.key \in UnknownKeys(last'.params)
                  /\ error'.what = plugin_name
                  /\ parameters' = parameters
                  /\ plugin_multi_params_dict' = plugin_multi_params_dict
                  /\ plugin_extra_dims' = plugin_extra_dims]_vars

\* the override of a mapping that is multi-value and converts without error
Converts(e) ==
    /\ is_multi_param(e.k, e.v)
    /\ convert_multi_params(e.k, e.v).error_str = ""

\* the override of a mapping whose conversion returns an error string
ConversionFails(e) ==
    /\ is_multi_param(e.k, e.v)
    /\ convert_multi_params(e.k, e.v).error_str # ""

\* the override makes the call raise: an unknown key, or no value to tune
Stops(e) ==
    \/ ~OdHas(parameters, e.k)
    \/ Converts(e) /\ Len(convert_multi_params(e.k, e.v).value.items) = 0

\* the overrides of a mapping that the call gets to and that do not stop it
Reached(params) ==
    SelectSeq([i \in DOMAIN params |-> [e |-> params[i], i |-> i]],
              LAMBDA x : \A j \in 1..x.i : ~Stops(params[j]))

\* the multi-value overrides among them, in the order of the mapping
Tuned(params) ==
    LET reached == Reached(params) IN
    SelectSeq([j \in DOMAIN reached |-> reached[j].e], Converts)

\* C4: every override of a known key that is multi-value and converts to a
\* sequence s (with a first element) leaves s as the parameter's current value,
\* registers exactly one sweep entry, labelled <key>_params.<type of s[0]>
\* with values s, at the index that is the number of entries registered
\* before it, and appends len(s) once to the extra dimensions.
C4_MultiValueRegistersOneSweep ==
    [][initialised' = initialised + 1
       => LET tuned == Tuned(last'.params) IN
          /\ \A j \in DOMAIN tuned :
                OdGet(parameters', tuned[j].k)
                  = convert_multi_params(tuned[j].k, tuned[j].v).value
          /\ plugin_multi_params_dict'
               = plugin_multi_params_dict \o
                 [j \in DOMAIN tuned |->
                    LET s == convert_multi_params(tuned[j].k, tuned[j].v).value
                    IN  Entry(Len(plugin_multi_params_dict) + j - 1,
                              [label |-> tuned[j].k \o "_params." \o s.items[1].ty,
                               values |-> s])]
          /\ plugin_extra_dims'
               = plugin_extra_dims \o
                 [j \in DOMAIN tuned |->
                    Len(convert_multi_params(tuned[j].k, tuned[j].v).value.items)]
      ]_vars

\* C4 witness: one call of initialise has registered two sweep entries
C4_Witness ==
    /\ last.op = "initialise"
    /\ error = NoError
    /\ Len(plugin_multi_params_dict) = 2
    /\ plugin_multi_params_dict[2].k = 1
    /\ plugin_extra_dims = <<2, 3>>

\* C5: an override of a known key whose conversion returns an error string
\* is rejected with the ValueError naming the key and the plugin.
C5_ConversionErrorRaises ==
    (/\ last.op = "initialise"
     /\ \E i \in DOMAIN last.params :
           /\ ConversionFails(last.params[i])
           /\ \A j \in 1..i : ~Stops(last.params[j]))
    => /\ error.type = "ValueError"
       /\ error.what = plugin_name
       /\ \E i \in DOMAIN last.params :
             ConversionFails(last.params[i]) /\ error.key = last.params[i].k

\* the definitions with a dependency that is a mapping {parent: choices}
MappingDependents(pdefs) ==
    {i \in DOMAIN pdefs :
        /\ "dependency" \in DOMAIN pdefs[i].v
        /\ pdefs[i].v.dependency.ty = "dict"}

\* the definitions with a dependency that is a plain parent name
PlainDependents(pdefs) ==
    {i \in DOMAIN pdefs :
        /\ "dependency" \in DOMAIN pdefs[i].v
        /\ pdefs[i].v.dependency.ty = "str"}

\* the parent a dependency names
DependsOn(pdict) ==
    IF pdict.dependency.ty = "dict"
    THEN OdKeyList(pdict.dependency.od)[1]
    ELSE Str(pdict.dependency)

\* str(values[parent]) is one of the allowed values of a mapping dependency
Allowed(pdict, values) ==
    \E j \in DOMAIN OdGet(pdict.dependency.od, DependsOn(pdict)).items :
        OdGet(pdict.dependency.od, DependsOn(pdict)).items[j]
          = PyStr(Str(OdGet(values, DependsOn(pdict))))

\* the display flag the dependency rule gives a definition whose parent is
\* a key of values
RuleDisplay(pdict, values) ==
    IF pdict.dependency.ty = "dict"
    THEN IF Allowed(pdict, values) THEN "on" ELSE "off"
    ELSE IF OdGet(values, DependsOn(pdict)) = PyNone THEN "off" ELSE "on"

\* C6: after initialise(params) has returned, the display flag of every
\* parameter with a dependency is what the dependency rule yields for the
\* current value of its parent (stated for the parents the value-set holds
\* and whose value is not the string "None", where the rule has one reading).
C6_DisplayFollowsOverrides ==
    (last.op = "initialise" /\ error = NoError)
    => \A i \in MappingDependents(param) \cup PlainDependents(param) :
          (/\ OdHas(parameters, DependsOn(param[i].v))
           /\ OdGet(parameters, DependsOn(param[i].v)) # PyStr("None"))
          => param[i].v.display = RuleDisplay(param[i].v, parameters)

\* C7 as stated: after check_dependencies(parameters) a parameter with a
\* mapping dependency is displayed iff its parent is a key of parameters
\* whose string value is allowed; in every other case the display is off.
C7_MappingDisplayOffWhenAbsent ==
    last.op = "check_dependencies"
    => \A i \in MappingDependents(param) :
          param[i].v.display
            = IF /\ OdHas(last.parameters, DependsOn(param[i].v))
                 /\ Allowed(param[i].v, last.parameters)
              THEN "on" ELSE "off"

\* C7 as amended: check_dependencies(parameters) leaves a parameter with a
\* mapping dependency displayed iff the string value of its parent is
\* allowed when the parent is a key of parameters, and leaves its display
\* flag as it was when the parent is no key of parameters.
C7_MappingDisplay ==
    [][last'.op = "check_dependencies"
       => /\ DOMAIN param' = DOMAIN param
          /\ \A i \in MappingDependents(param') :
                param'[i].v.display
                  = IF OdHas(last'.parameters, DependsOn(param'[i].v))
                    THEN IF Allowed(param'[i].v, last'.parameters)
                         THEN "on" ELSE "off"
                    ELSE param[i].v.display]_vars

\* C7 witness: check_dependencies ran on a mapping without the parent of a
\* mapping dependency and the parameter is still not displayed
C7_Witness ==
    /\ last.op = "check_dependencies"
    /\ \E i \in MappingDependents(param) :
          /\ ~OdHas(last.parameters, DependsOn(param[i].v))
          /\ OdHas(parameters, DependsOn(param[i].v))
          /\ param[i].v.display = "off"

\* C8 as stated: after check_dependencies(parameters) a parameter with a
\* plain dependency is not displayed when its parent is None or absent from
\* parameters, and displayed otherwise.
C8_PlainDisplayOffWhenAbsent ==
    last.op = "check_dependencies"
    => \A i \in PlainDependents(param) :
          param[i].v.display
            = IF \/ ~OdHas(last.parameters, DependsOn(param[i].v))
                 \/ OdGet(last.parameters, DependsOn(param[i].v)) = PyNone
              THEN "off" ELSE "on"

\* C8 as amended: check_dependencies(parameters) leaves a parameter with a
\* plain dependency not displayed when its parent is a key of parameters
\* whose value is None or reads "None" as a string, displayed when the
\* parent is a key with any other value, and leaves its display flag as it
\* was when the parent is no key of parameters.
C8_PlainDisplay ==
    [][last'.op = "check_dependencies"
       => /\ DOMAIN param' = DOMAIN param
          /\ \A i \in PlainDependents(param') :
                param'[i].v.display
                  = IF OdHas(last'.parameters, DependsOn(param'[i].v))
                    THEN IF Str(OdGet(last'.parameters,
                                      DependsOn(param'[i].v))) = "None"
                         THEN "off" ELSE "on"
                    ELSE param[i].v.display]_vars

\* C8 witness: check_dependencies ran on a mapping whose value for the
\* parent of a plain dependency is the string "None", and the parameter is
\* not displayed
C8_Witness ==
    /\ last.op = "check_dependencies"
    /\ \E i \in PlainDependents(param) :
          /\ OdHas(last.parameters, DependsOn(param[i].v))
          /\ OdGet(last.parameters, DependsOn(param[i].v)) = PyStr("None")
          /\ param[i].v.display = "off"

\* the dtype tokens of a class that the type registry does not hold
UnknownTypes(param_info_dict) ==
    UNION {{[param |-> param_info_dict[i].k,
             item |-> param_info_dict[i].v.dtype.toks[j]] :
              j \in {n \in DOMAIN param_info_dict[i].v.dtype.toks :
                       param_info_dict[i].v.dtype.toks[n] \notin type_dict}} :
           i \in DOMAIN param_info_dict}

\* C9: if a parameter of a class declares a dtype token the type registry
\* does not hold, as its dtype or inside its dtype list, _check_dtype reports
\* each such token and fails, so that construction is aborted.
C9_UnknownDtypeAborts ==
    (/\ last.op = "_set_parameter_definitions"
     /\ \A i \in DOMAIN last.tool_class :
           four_required_keys \subseteq DOMAIN last.tool_class[i].v
     /\ UnknownTypes(last.tool_class) # {})
    => /\ error = Raise("Exception", "InvalidDtype", "")
       /\ pc = "failed"
       /\ {dtype_report[j] : j \in DOMAIN dtype_report}
            = UnknownTypes(last.tool_class)

\* C10: a class whose records are hidden and carry nothing but a default
\* passes the validation of _set_parameter_definitions: nothing is raised
\* and the records are stored with display "on".
C10_HiddenNeedsOnlyDefault ==
    (/\ last.op = "_set_parameter_definitions"
     /\ \A i \in DOMAIN last.tool_class :
           /\ DOMAIN last.tool_class[i].v = {"visibility", "default"}
           /\ last.tool_class[i].v.visibility = "hidden")
    => /\ error = NoError
       /\ \A i \in DOMAIN last.tool_class :
             /\ OdHas(param, last.tool_class[i].k)
             /\ OdGet(param, last.tool_class[i].k).display = "on"

\* a default that is a plain literal: no mapping, or a mapping that is no
\* dependency descriptor {parent: {value: default, ...}}
PlainLiteral(default) ==
    \/ ~IsDict(default)
    \/ Len(default.od) = 0
    \/ ~IsDict(default.od[1].v)

\* C11: after construction the current value of every parameter whose
\* default is a plain literal (a number, a string, None, a list or a mapping
\* that is no dependency descriptor) is that literal, and a definition set
\* of plain literals does not make construction fail.
C11_LiteralDefaultIsValue ==
    last.op = "_populate_default_parameters"
    => /\ (\A i \in DOMAIN param : PlainLiteral(param[i].v.default))
            => error = NoError
       /\ error = NoError
            => \A i \in DOMAIN param :
                  PlainLiteral(param[i].v.default)
                  => OdGet(parameters, param[i].k) = param[i].v.default

RECURSIVE Declarations(_)
\* the entries of the tools classes, the most-base class first
Declarations(tools) ==
    IF Len(tools) = 0 THEN <<>>
    ELSE tools[1] \o Declarations(Tail(tools))

\* the positions that declare a name for the first time
FirstDeclarations(entries) ==
    {i \in DOMAIN entries : \A j \in 1..(i - 1) : entries[j].k # entries[i].k}

\* the names in the order of their first declaration
DeclaredNames(entries) ==
    LET keep == [i \in DOMAIN entries |-> i \in FirstDeclarations(entries)]
        RECURSIVE Names(_)
        Names(i) == IF i > Len(entries) THEN <<>>
                    ELSE IF keep[i] THEN <<entries[i].k>> \o Names(i + 1)
                    ELSE Names(i + 1)
    IN  Names(1)

\* the record of the most-derived class that declares the name
LastDeclared(entries, name) ==
    entries[CHOOSE i \in DOMAIN entries :
               /\ entries[i].k = name
               /\ \A j \in (i + 1)..Len(entries) : entries[j].k # name].v

\* the stored record is the declared one: the same fields and the display
\* flag, the default coerced, the visibility as declared unless the name is
\* a dataset one
StoredFrom(name, stored, declared) ==
    /\ DOMAIN stored = DOMAIN declared \cup {"display"}
    /\ \A f \in DOMAIN declared \ {"default", "visibility"} :
          stored[f] = declared[f]
    /\ stored.default = dumps(declared.default)
    /\ name \notin datasets => stored.visibility = declared.visibility

\* C12: after construction the keys of get_param_definitions() are exactly
\* the names the tools classes declare, in the order of their first
\* declaration from the most-base class on, and the record of a name that a
\* more-derived class declares again is the record of that class, at the
\* position of the first declaration.
C12_DefinitionsOrderedByFirstDeclaration ==
    (pc = "ready" /\ last = [op |-> "_populate_default_parameters"])
    => LET entries == Declarations(tools_list) IN
       /\ OdKeyList(param) = DeclaredNames(entries)
       /\ \A i \in DOMAIN param :
             StoredFrom(param[i].k, param[i].v,
                        LastDeclared(entries, param[i].k))

\* C12 witness: the derived class declared the first name of the base class
\* again with another default; the name is still first and holds the new one
C12_Witness ==
    /\ pc = "ready"
    /\ last = [op |-> "_populate_default_parameters"]
    /\ Len(tools_list) = 2
    /\ tools_list[2][2].k = tools_list[1][1].k
    /\ tools_list[1][1].v.default = PyStr("manual")
    /\ OdKeyList(param) = <<tools_list[1][1].k, "mode">>
    /\ param[1].v.default = PyInt("1")

\* the definitions whose default is a dependency descriptor on a name that
\* is no key of the definitions
UnknownParents(pdefs) ==
    {i \in DOMAIN pdefs :
        /\ ~PlainLiteral(pdefs[i].v.default)
        /\ ~OdHas(pdefs, ParentOf(pdefs[i].v))}

\* C13: when the validation of a tools class raises, or a default names a
\* parent that is not defined, construction has failed and the plugin has
\* not been given a parameter mapping; the plugin is only given one after
\* every class was validated and the defaults were resolved.
C13_FailureHandsOutNothing ==
    /\ (last.op = "_set_parameter_definitions" /\ error # NoError)
         => pc = "failed"
    /\ (last.op = "_populate_default_parameters" /\ UnknownParents(param) # {})
         => pc = "failed"
    /\ pc = "failed" => ~plugin_has_parameters
    /\ plugin_has_parameters
         => (pc = "ready" /\ next_tool > Len(tools_list))

\* C13 witness: the base class was stored, the validation of the derived
\* class raised, and the plugin has no parameter mapping
C13_Witness ==
    /\ pc = "failed"
    /\ last.op = "_set_parameter_definitions"
    /\ next_tool = 3
    /\ Len(param) > 0
    /\ error = Raise("Exception", "InvalidVisibility", "")
    /\ ~plugin_has_parameters

\* the definitions without their display flags
WithoutDisplay(pdefs) ==
    [i \in DOMAIN pdefs |->
        [k |-> pdefs[i].k,
         v |-> [f \in DOMAIN pdefs[i].v \ {"display"} |-> pdefs[i].v[f]]]]

\* C14: once the definitions are loaded, no operation on the constructed
\* object changes a field of a definition other than its display flag.
C14_DefinitionsAreFrozen ==
    [][pc = "ready" => WithoutDisplay(param') = WithoutDisplay(param)]_vars

\* the display flags of the definitions
Displays(pdefs) == [i \in DOMAIN pdefs |-> pdefs[i].v.display]

\* every mapping default of the definitions is a dependency descriptor
MappingDefaultsAreDescriptors(pdefs) ==
    \A i \in DOMAIN pdefs :
        IsDict(pdefs[i].v.default) => ~PlainLiteral(pdefs[i].v.default)

\* C15: warn_dependents(mod_param, mod_value) raises nothing and changes
\* neither the value-set nor a display flag, whether the descriptions are
\* strings or mappings (stated for the definition sets whose mapping
\* defaults are dependency descriptors).
C15_WarnDependentsIsAdvisory ==
    [][(last'.op = "warn_dependents" /\ MappingDefaultsAreDescriptors(param))
       => /\ error' = NoError
          /\ parameters' = parameters
          /\ Displays(param') = Displays(param)]_vars

\* every descriptor on a parent with a literal default has a branch for it
BranchesCoverLiterals(pdefs) ==
    \A i \in DOMAIN pdefs :
        (/\ ~PlainLiteral(pdefs[i].v.default)
         /\ OdHas(pdefs, ParentOf(pdefs[i].v))
         /\ PlainLiteral(OdGet(pdefs, ParentOf(pdefs[i].v)).default))
        => OdHas(BranchesOf(pdefs[i].v),
                 OdGet(pdefs, ParentOf(pdefs[i].v)).default)

\* C16: when the descriptor of a default names a parent that is no key of
\* the definitions (and nothing else is wrong with the defaults), default
\* resolution raises "The dependency <name> does not exist" for that name
\* and construction is aborted.
C16_UnknownParentIsReported ==
    (/\ last.op = "_populate_default_parameters"
     /\ UnknownParents(param) # {}
     /\ BranchesCoverLiterals(param))
    => /\ pc = "failed"
       /\ error.type = "Exception"
       /\ error.what = "UnknownDependency"
       /\ \E i \in UnknownParents(param) :
             error.key = ParentOf(param[i].v)

\* C17: default resolution is idempotent: _populate_default_parameters run
\* a second time, right after the first and with no override in between,
\* raises nothing and leaves the value mapping and the display flags as the
\* first run left them.
C17_DefaultResolutionIsIdempotent ==
    [][(/\ last = [op |-> "_populate_default_parameters"]
        /\ last' = [op |-> "_populate_default_parameters", repeated |-> TRUE])
       => /\ error' = NoError
          /\ parameters' = parameters
          /\ Displays(param') = Displays(param)]_vars

\* C17 witness: the second run has ended, a default that depends on another
\* parameter is resolved and its parameter is not displayed
C17_Witness ==
    /\ last = [op |-> "_populate_default_parameters", repeated |-> TRUE]
    /\ error = NoError
    /\ \E i \in DOMAIN param :
          /\ ~PlainLiteral(param[i].v.default)
          /\ OdGet(parameters, param[i].k) = PyInt("1")
          /\ param[i].v.display = "off"

RECURSIVE ChainEnds(_, _, _)
\* following the parents of a name for at most fuel descriptors ends at a
\* literal default or at a name that is not defined
ChainEnds(pdefs, name, fuel) ==
    IF ~OdHas(pdefs, name) THEN TRUE
    ELSE IF PlainLiteral(OdGet(pdefs, name).default) THEN TRUE
    ELSE IF fuel = 0 THEN FALSE
    ELSE ChainEnds(pdefs, ParentOf(OdGet(pdefs, name)), fuel - 1)

\* the parent relation of the descriptors has no cycle
Acyclic(pdefs) ==
    \A i \in DOMAIN pdefs : ChainEnds(pdefs, pdefs[i].k, Len(pdefs))

C19_OverrideReresolvesChild ==
    (last.op = "initialise" /\ error = NoError /\ Len(last.params) = 1)
    => \A i \in DOMAIN param :
          (/\ ~PlainLiteral(param[i].v.default)
           /\ last.params[1].k = ParentOf(param[i].v)
           /\ OdHas(BranchesOf(param[i].v),
                    OdGet(parameters, ParentOf(param[i].v))))
          => OdGet(parameters, param[i].k)
               = OdGet(BranchesOf(param[i].v),
                       OdGet(parameters, ParentOf(param[i].v)))

\* C20: after the validation of a class a parameter named in_datasets or
\* out_datasets has the visibility 'datasets' whatever it declared, unless
\* it declared 'not', which it keeps; any other parameter has the
\* visibility it declared.
C20_DatasetVisibility ==
    (last.op = "_set_parameter_definitions" /\ error = NoError)
    => \A i \in DOMAIN last.tool_class :
          LET name == last.tool_class[i].k
              declared == last.tool_class[i].v.visibility
          IN  /\ OdHas(param, name)
              /\ OdGet(param, name).visibility
                   = IF /\ name \in {"in_datasets", "out_datasets"}
                        /\ declared # "not"
                     THEN "datasets" ELSE declared

\* C20 witness: a class that declared in_datasets with a visibility that is
\* no level at all was validated and in_datasets is stored with 'datasets'
C20_Witness ==
    /\ last.op = "_set_parameter_definitions"
    /\ error = NoError
    /\ \E i \in DOMAIN last.tool_class :
          /\ last.tool_class[i].k = "in_datasets"
          /\ last.tool_class[i].v.visibility = "foo"
          /\ OdGet(param, "in_datasets").visibility = "datasets"

-----------------------------------------------------------------------------
(* C21: every invalid visibility level is reported before the one failure *)

\* the parameters of a class, in order, that are no dataset parameters and
\* declare a level outside the six accepted ones
InvalidLevels(tool_class) ==
    LET bad == SelectSeq(tool_class,
                         LAMBDA e : /\ e.k \notin datasets
                                    /\ e.v.visibility \notin
                                          {"basic", "intermediate", "advanced",
                                           "datasets", "hidden", "not"})
    IN  [i \in DOMAIN bad |-> [param |-> bad[i].k,
                               level |-> bad[i].v.visibility]]

\* C21: when _check_visibility fails, it has examined every record: each
\* parameter with an invalid level was reported, in order, before the
\* single failure; and a class that validates has no invalid level
C21_EveryInvalidVisibilityReported ==
    last.op = "_set_parameter_definitions" =>
        /\ error.what = "InvalidVisibility" =>
              /\ visibility_report = InvalidLevels(last.tool_class)
              /\ Len(visibility_report) > 0
        /\ error = NoError /\ Len(last.tool_class) > 0 =>
              /\ InvalidLevels(last.tool_class) = <<>>
              /\ visibility_report = <<>>

\* a class fails with two invalid parameters, both reported
C21_Witness ==
    /\ last.op = "_set_parameter_definitions"
    /\ error.what = "InvalidVisibility"
    /\ Len(visibility_report) = 2
    /\ visibility_report[1].param = "level"
    /\ visibility_report[2].param = "mode"

-----------------------------------------------------------------------------
(* C22: described options must be declared options *)

\* the record has a description with a non-empty sub-map 'options' and a
\* non-empty list 'options'
HasOptionPair(p) ==
    /\ p.description.isdict
    /\ "options" \in DOMAIN p.description.fields
    /\ Len(p.description.fields.options) > 0
    /\ "options" \in DOMAIN p
    /\ Len(p.options) > 0

\* some described option is not in the list of options
UndeclaredOption(p) ==
    {p.description.fields.options[j] : j \in DOMAIN p.description.fields.options}
        \ {p.options[n] : n \in DOMAIN p.options} # {}

\* C22: for a class whose records carry the required keys, validation
\* fails on the options iff some record with described options and
\* declared options describes an option that is not declared
C22_DescribedOptionsAreDeclared ==
    (/\ last.op = "_set_parameter_definitions"
     /\ \A i \in DOMAIN last.tool_class :
            four_required_keys \subseteq DOMAIN last.tool_class[i].v)
    => (error.what = "InvalidOption"
        <=> \E i \in DOMAIN last.tool_class :
               /\ HasOptionPair(last.tool_class[i].v)
               /\ UndeclaredOption(last.tool_class[i].v))

\* a class is refused for a described option that is not declared
C22_Witness ==
    /\ last.op = "_set_parameter_definitions"
    /\ error.what = "InvalidOption"
    /\ \E i \in DOMAIN last.tool_class :
          /\ HasOptionPair(last.tool_class[i].v)
          /\ UndeclaredOption(last.tool_class[i].v)

-----------------------------------------------------------------------------
(* C23: the citations of a tools class *)

\* the citation records of the methods of a class, in order
MethodRecords(members) ==
    SelectSeq(members, LAMBDA e : startswith_citation(e.k) /\ e.v.ty = "dict")

\* the records of all classes that have a description
DescribedRecords ==
    UNION {{r.v.od : r \in {MethodRecords(tools_cite[c])[i] :
                               i \in DOMAIN MethodRecords(tools_cite[c])}}
              \cap {od \in CitationRecords : OdHas(od, "description")} :
           c \in DOMAIN tools_cite}

\* set_cite went through every class without raising
CitationsSet == pc \in {"set_doc", "ready"}

\* C23 as stated: the two citation methods of a class give two entries of
\* get_citations(), keyed by the names of the methods
C23_KeyedByMethodName ==
    (/\ CitationsSet
     /\ \A e \in {tools_cite[2][i] : i \in 2..3} :
           e.v.ty = "dict" /\ OdKeys(e.v.od) \subseteq all_keys
                           /\ OdHas(e.v.od, "description"))
    => /\ OdHas(get_citations, "citation")
       /\ OdHas(get_citations, "citation2")

\* C23: get_citations() is keyed by the name of the citation, not by the
\* name of the method: each entry is stored under the name of its citation
\* object and has a description, there is one entry per distinct citation
\* name of the records with a description, and a record without
\* description is not stored and nothing is raised for it
C23_KeyedByCitationName ==
    /\ CitationsSet =>
        /\ \A i \in DOMAIN get_citations :
              /\ get_citations[i].k = get_citations[i].v.name
              /\ OdHas(get_citations[i].v.fields, "description")
        /\ OdKeys(get_citations) = {citation_name(od) : od \in DescribedRecords}
    /\ (/\ last.op = "_set_plugin_citations"
         /\ \A i \in DOMAIN MethodRecords(last.members) :
                OdKeys(MethodRecords(last.members)[i].v.od) \subseteq all_keys)
        => /\ error = NoError
           /\ last.not_saved =
                 Len(SelectSeq(MethodRecords(last.members),
                               LAMBDA e : ~OdHas(e.v.od, "description")))

\* two methods with a description each gave two entries, neither under
\* the name of its method
C23_Witness ==
    /\ CitationsSet
    /\ tools_cite[1] = <<>>
    /\ tools_cite[2][2].v = PyDict(<<Entry("description", PyStr("first"))>>)
    /\ tools_cite[2][3].v.ty = "dict"
    /\ OdKeys(get_citations) = {"first", "short"}
    /\ Len(get_citations) = 2

-----------------------------------------------------------------------------
(* C24: a citation record with an unknown key *)

\* C24 as stated: a record with a key outside the six known ones is
\* reported and dropped: it is not inserted, no citation object is built
\* from it, and the aggregation goes on without raising
C24_UnknownKeyIsDropped ==
    last.op = "_set_plugin_citations" =>
        \A i \in DOMAIN MethodRecords(last.members) :
            LET citation == MethodRecords(last.members)[i].v.od IN
            ~(OdKeys(citation) \subseteq all_keys) =>
                /\ \E n \in DOMAIN last.additional :
                      last.additional[n] =
                          SelectSeq(OdKeyList(citation),
                                    LAMBDA k : k \notin all_keys)
                /\ \A n \in DOMAIN get_citations :
                      get_citations[n].v.fields # citation
                /\ error = NoError

-----------------------------------------------------------------------------
(* C27: check_for_default *)

\* C27 as stated: a value whose string form is not 'default' is returned
\* unchanged, and for 'default' the call returns the original default of the
\* parameter resolved against the given parameters, without raising
C27_DefaultIsRestored ==
    last.op = "check_for_default" =>
        IF Str(last.value) # "default"
        THEN error = NoError /\ returned = last.value
        ELSE OdHas(get_param_definitions, last.param_name) =>
                /\ error = NoError
                /\ LET p == OdGet(get_param_definitions, last.param_name)
                   IN  returned =
                         IF IsDict(p.default)
                         THEN get_dependent_default(
                                  p, get_param_definitions,
                                  last.parameters).value
                         ELSE p.default

-----------------------------------------------------------------------------
(* C29: the docstring information after construction *)

\* C29 as stated: when construction completes, docstring_info['info'] and
\* docstring_info['warn'] are get_doc()['verbose'] and get_doc()['warn']
C29_DocstringInfoMatchesDoc ==
    last.op = "set_doc" =>
        /\ DictGet(docstring_info, "info") = DictGet(get_doc, "verbose")
        /\ DictGet(docstring_info, "warn") = DictGet(get_doc, "warn")

-----------------------------------------------------------------------------
(* C25: an override whose conversion fails *)

\* the sweep entries registered for a key
EntriesOf(dict, key) ==
    {n \in DOMAIN dict :
        \E t \in TypeNames : dict[n].v.label = key \o "_params." \o t}

\* C25: an override of a known key that is multi-value and whose conversion
\* returns an error string does not make initialise raise; the parameter
\* keeps the value it had, no sweep entry is registered for it and no extra
\* dimension is appended for it, and the keys after it are still processed
C25_ConversionErrorIsSkipped ==
    [][initialised' = initialised + 1
       => \A i \in DOMAIN last'.params :
            LET params == last'.params
                e == params[i]
            IN
            (OdHas(parameters, e.k) /\ ConversionFails(e)) =>
                /\ error'.key # e.k
                /\ (\A j \in DOMAIN params : ~Stops(params[j]))
                      => error' = NoError
                /\ OdGet(parameters', e.k) = OdGet(parameters, e.k)
                /\ EntriesOf(plugin_multi_params_dict', e.k)
                     = EntriesOf(plugin_multi_params_dict, e.k)
                /\ Len(plugin_extra_dims')
                     = Len(plugin_extra_dims) + Len(Tuned(params))
                /\ \A j \in DOMAIN params :
                      (/\ j > i
                       /\ \A m \in 1..j : ~Stops(params[m])
                       /\ ~is_multi_param(params[j].k, params[j].v))
                      => OdGet(parameters', params[j].k) = params[j].v
      ]_vars

\* initialise was given a threshold that does not convert and then a mode:
\* it returned, threshold is as it was and mode is the value given
C25_Witness ==
    /\ last.op = "initialise"
    /\ last.params = <<Entry("threshold", PyMulti(<<"1:", "2">>)),
                       Entry("mode", PyStr("auto"))>>
    /\ error = NoError
    /\ OdGet(parameters, "threshold") = PyInt("42")
    /\ OdGet(parameters, "mode") = PyStr("auto")
    /\ plugin_multi_params_dict = <<>>
    /\ plugin_extra_dims = <<>>

-----------------------------------------------------------------------------
(* C26: the values of one instance of a sweep *)

\* C26 as stated: after _set_parameters_this_instance(indices), with an
\* index for every registered sweep entry, the parameter whose override
\* created an entry holds the entry's value at the index of that entry
C26_SweepValuesSelected ==
    (/\ last.op = "_set_parameters_this_instance"
     /\ Len(last.indices) >= Len(plugin_multi_params_dict)
     /\ \A n \in DOMAIN plugin_multi_params_dict :
           last.indices[n] < Len(plugin_multi_params_dict[n].v.values.items))
    => \A n \in DOMAIN plugin_multi_params_dict :
          LET info == plugin_multi_params_dict[n].v IN
          \E key \in OdKeys(parameters) :
              /\ info.label = multi_label(key, info.values)
              /\ OdGet(parameters, key)
                   = info.values.items[last.indices[n] + 1]

-----------------------------------------------------------------------------
(* C28: the value-set and the definitions have the same keys *)

\* C28: on the constructed object, whatever calls of initialise (returning
\* or raising) and of _set_parameters_this_instance were made, the keys of
\* get_param_values() are the keys of get_param_definitions()
C28_ValuesHaveTheKeysOfDefinitions ==
    pc = "ready" => OdKeys(get_param_values) = OdKeys(get_param_definitions)

\* initialise has raised for an unknown key after an override was applied
C28_Witness ==
    /\ pc = "ready"
    /\ last.op = "initialise"
    /\ error.type = "ValueError"
    /\ last.params[1].k = "mode"
    /\ OdGet(parameters, "mode") = last.params[1].v
    /\ OdKeys(get_param_values) = {"level", "mode", "threshold"}

-----------------------------------------------------------------------------
(* C30: what a successful initialise changes *)

====
